---------------------------- MODULE Spec2Model ----------------------------
(***************************************************************************)
(* Verification model of the dispatch and resilience core of the           *)
(* financial-data MCP server: the key pool (KeyManager), the circuit       *)
(* breaker (CircuitBreaker) and the cascading dispatcher                   *)
(* (ResilientApiClient.executeWithCascadingFailover).                      *)
(*                                                                         *)
(* Time is the value of Date.now(), counted in abstract ticks.  Key        *)
(* indexes are 0-based as in the source.                                   *)
(***************************************************************************)
EXTENDS Integers, Sequences, FiniteSets, TLC

(***************************************************************************)
(* Bounds of the model.                                                    *)
(***************************************************************************)
MaxKeys == 2
MaxTime == 2
MaxWindow == 2
MaxUsage == 2

(* the value of an absent optional field (cooldownUntil?: number) and of a *)
(* null key                                                                *)
Undefined == -1

VARIABLES
    now,             \* Date.now()
    keys,            \* KeyManager.keys: source -> [0..n-1 -> ApiKeyInfo]
    currentIndexes,  \* KeyManager.currentIndexes: source -> index
    resetWindow,     \* config.keyRotationResetWindowMs
    lastCall,        \* the last completed call on a KeyManager
    circuitState,    \* CircuitBreaker.circuitState
    failureCount,    \* CircuitBreaker.failureCount
    lastFailureTime, \* CircuitBreaker.lastFailureTime
    lastStateChange, \* CircuitBreaker.lastStateChange
    cbConfig,        \* circuitBreakerEnabled / FailureThreshold / TimeoutMs
    inFlight,        \* wrapped calls awaiting their outcome
    cbLast,          \* the last event at the breaker
    streak,          \* history: consecutive failed execute() calls
    cbPrev,          \* history: the breaker's fields before its last event
    customPriorities,\* SourceRouter.customPriorities: tool -> list (<<>> if unset)
    circuitBreakers, \* ResilientApiClient.circuitBreakers: source -> breaker
    config,          \* ResilientApiClient.config: apiFailoverEnabled
    lastRequestTime, \* SinaClient.lastRequestTime
    callers,         \* the calls of SinaClient.request in progress
    requestTimes,    \* history: the times at which fetch was called
    errorClass,      \* the class the error detection gives lastError
    market,          \* the market getMarketFromSymbol gave symbol ("" if none)
    retry,           \* one call of withRetry: its config, locals and outcome
    pc,              \* position of the dispatch in executeWithCascadingFailover
    toolName,        \* its toolName argument
    symbol,          \* its symbol argument (<<>> if absent)
    skipped,         \* history: the indexes in sources its for loop passed over
    deadlinePassed,  \* history: the caller's deadline came during the dispatch
    sources,         \* its candidate list
    pos,             \* index in sources of the source of the for loop
    attempts,        \* its attempts list
    keyIndex,        \* keyIndex read before the source is entered
    attempt,         \* loop counter of executeWithKeyRotation
    keyInfo,         \* index of the key getNextKey returned
    lastError,       \* lastError of executeWithKeyRotation
    calls,           \* history: the upstream requests the dispatch issued
    result,          \* what the dispatch returned or threw
    dispatches       \* number of dispatches started

poolVars == <<keys, currentIndexes, resetWindow, lastCall>>

cbVars == <<circuitState, failureCount, lastFailureTime, lastStateChange,
            cbConfig, inFlight, cbLast, streak, cbPrev>>

adapterVars == <<lastRequestTime, callers, requestTimes>>

dispVars == <<customPriorities, circuitBreakers, config, adapterVars,
              errorClass, market, retry, pc, toolName, symbol,
              skipped, deadlinePassed, sources, pos, attempts, keyIndex,
              attempt, keyInfo, lastError, calls, result, dispatches>>

vars == <<now, poolVars, cbVars, dispVars>>

KeyedSources == {"finnhub", "alphavantage", "twelvedata", "tiingo"}

(***************************************************************************)
(* KeyManager (api-key-manager): pure parts of its methods, on the key     *)
(* list ks (a function on 0..n-1) and the current index cur.               *)
(***************************************************************************)

getTotalKeyCount(ks) == Cardinality(DOMAIN ks)

(* The value of a credential environment variable that lists n keys.  A    *)
(* string of comma-separated entries is modelled as the sequence of its    *)
(* entries, entry j of the variable being the number j - 1: "k0,k1" is     *)
(* <<0, 1>> and the single key "k1" is <<1>>.                              *)
EnvValue(n) == [j \in 1..n |-> j - 1]

(* initializeKeys: the environment value split on commas, one record per   *)
(* entry                                                                   *)
initializeKeys(keyEnv) ==
    [i \in 0..(Len(keyEnv) - 1) |->
        [key |-> <<keyEnv[i + 1]>>, index |-> i, usageCount |-> 0,
         inCooldown |-> FALSE, cooldownUntil |-> Undefined]]

getAvailableKeyCount(ks) == Cardinality({i \in DOMAIN ks : ~ks[i].inCooldown})

(* the for loop of getNextKey: at most 2n probes, round robin from idx *)
RECURSIVE scanNextKey(_, _, _)
scanNextKey(ks, idx, probes) ==
    IF probes >= 2 * getTotalKeyCount(ks) THEN Undefined
    ELSE IF ~ks[idx].inCooldown THEN idx
    ELSE scanNextKey(ks, (idx + 1) % getTotalKeyCount(ks), probes + 1)

(* a getNextKey that returns the current key without testing its cooldown *)
getNextKeyIgnoringCooldown(ks, cur) ==
    IF getTotalKeyCount(ks) = 0 THEN Undefined ELSE cur

(* getNextKey: the index of the returned key, Undefined for null *)
getNextKey(ks, cur) ==
    IF getTotalKeyCount(ks) = 0 THEN Undefined ELSE scanNextKey(ks, cur, 0)

(* a markRateLimit that puts every key of the pool in cooldown *)
markRateLimitAllKeys(ks, i, t, window) ==
    IF i >= getTotalKeyCount(ks) THEN ks
    ELSE [j \in DOMAIN ks |->
            [ks[j] EXCEPT !.inCooldown = TRUE, !.cooldownUntil = t + window]]

(* markRateLimit *)
markRateLimit(ks, i, t, window) ==
    IF i >= getTotalKeyCount(ks) THEN ks
    ELSE [ks EXCEPT ![i].inCooldown = TRUE,
                    ![i].cooldownUntil = t + window]

(* recordUsage: the key list; the current index becomes keyIndex *)
recordUsage(ks, i) ==
    IF i >= getTotalKeyCount(ks) THEN ks
    ELSE [ks EXCEPT ![i].usageCount = @ + 1]

(* resetCooldown *)
resetCooldown(ks, i) ==
    IF i >= getTotalKeyCount(ks) THEN ks
    ELSE [ks EXCEPT ![i].inCooldown = FALSE,
                    ![i].cooldownUntil = Undefined]

(* the condition of checkAndResetCooldowns on one key; cooldownUntil is    *)
(* tested for truthiness, so undefined and 0 both fail it                  *)
cooldownExpired(k, t) ==
    k.inCooldown /\ k.cooldownUntil # Undefined /\ k.cooldownUntil # 0
        /\ t >= k.cooldownUntil

(* checkAndResetCooldowns *)
checkAndResetCooldowns(ks, t) ==
    [i \in DOMAIN ks |->
        IF cooldownExpired(ks[i], t)
        THEN [ks[i] EXCEPT !.inCooldown = FALSE, !.cooldownUntil = Undefined]
        ELSE ks[i]]

(* a hasAvailableKey that counts the free keys without sweeping first *)
hasAvailableKeyWithoutSweep(ks, t) == getAvailableKeyCount(ks) > 0

(* hasAvailableKey, evaluated on the list it has swept *)
hasAvailableKey(ks, t) == getAvailableKeyCount(checkAndResetCooldowns(ks, t)) > 0

(* the do-while loop of rotateKey: the index rotated to, Undefined if the  *)
(* loop comes back to startIndex without finding a key                     *)
RECURSIVE rotateScan(_, _, _)
rotateScan(ks, idx, startIndex) ==
    LET nx == (idx + 1) % getTotalKeyCount(ks)
    IN  IF ~ks[nx].inCooldown THEN nx
        ELSE IF nx = startIndex THEN Undefined
        ELSE rotateScan(ks, nx, startIndex)

(* rotateKey: the index rotated to, Undefined when it returns false *)
rotateKey(ks, cur) ==
    IF getTotalKeyCount(ks) <= 1 THEN Undefined ELSE rotateScan(ks, cur, cur)

(* the record of a call of a KeyManager method: its name, argument and     *)
(* result and the time of the call                                         *)
NoCall == [op |-> "none", arg |-> Undefined, result |-> Undefined, at |-> 0]

Call(op, arg, res) == [op |-> op, arg |-> arg, result |-> res, at |-> now]

(***************************************************************************)
(* CircuitBreaker.  A wrapped call is asynchronous: it is started by       *)
(* execute or testRecovery and its outcome arrives in a later step, so     *)
(* several calls can be in flight.  inFlight.counted are the calls of      *)
(* execute whose outcome runs onSuccess/onFailure, inFlight.trial the      *)
(* trial calls of testRecovery (whose outcome runs them too),              *)
(* inFlight.bypass the calls execute passed through because the breaker is *)
(* disabled, inFlight.plain the calls testRecovery passed through because  *)
(* the circuit was not open.                                               *)
(***************************************************************************)
MaxThreshold == 2
MaxTimeout == 2
MaxInFlight == 2
MaxFailures == 3

(* the state of a breaker after construction, under configuration c *)
CBInitial(c) ==
    /\ circuitState = "closed"
    /\ failureCount = 0
    /\ lastFailureTime = 0
    /\ lastStateChange = 0
    /\ cbConfig = c
    /\ inFlight = [counted |-> 0, trial |-> 0, bypass |-> 0, plain |-> 0]
    /\ cbLast = "none"
    /\ streak = 0
    /\ cbPrev = [op |-> "none", state |-> "closed", count |-> 0,
                 lastFailure |-> 0, at |-> 0, inFlight |-> 0]

DefaultBreakerConfig == [enabled |-> TRUE, threshold |-> 1, timeout |-> 1]

CBIdle == CBInitial(DefaultBreakerConfig)

InFlightTotal ==
    inFlight.counted + inFlight.trial + inFlight.bypass + inFlight.plain

(* the history record of an event op: the fields it found and its time *)
CBBefore(op) ==
    [op |-> op, state |-> circuitState, count |-> failureCount,
     lastFailure |-> lastFailureTime, at |-> now, inFlight |-> InFlightTotal]

(* the history variable after an event that is not a failed execute() call: *)
(* a run of consecutive failures starts from closed with failureCount 0     *)
StreakAfter(state, count) ==
    IF state = "closed" /\ count = 0 THEN 0 ELSE Undefined

(* onSuccess: the circuit state it leaves *)
onSuccessState(state) == "closed"

(* a breaker that opens one failure late *)
onFailureStateLate(state, count, threshold) ==
    IF count > threshold /\ state # "open" THEN "open" ELSE state

(* onFailure: the circuit state it leaves, count being the incremented      *)
(* failureCount                                                             *)
onFailureState(state, count, threshold) ==
    IF count >= threshold /\ state # "open" THEN "open" ELSE state

(* an execute that counts the rejection on an open circuit as a failure *)
CBExecuteCountsRejection ==
    /\ cbPrev' = CBBefore("execute")
    /\ InFlightTotal < MaxInFlight
    /\ IF ~cbConfig.enabled
       THEN /\ inFlight' = [inFlight EXCEPT !.bypass = @ + 1]
            /\ cbLast' = "passed"
            /\ UNCHANGED <<failureCount, lastFailureTime>>
       ELSE IF circuitState = "open"
       THEN /\ cbLast' = "CIRCUIT_OPEN"
            /\ failureCount' = IF failureCount < MaxFailures
                               THEN failureCount + 1 ELSE failureCount
            /\ lastFailureTime' = now
            /\ UNCHANGED inFlight
       ELSE /\ inFlight' = [inFlight EXCEPT !.counted = @ + 1]
            /\ cbLast' = "passed"
            /\ UNCHANGED <<failureCount, lastFailureTime>>
    /\ UNCHANGED <<now, poolVars, dispVars, circuitState, lastStateChange,
                   cbConfig, streak>>

(* execute, up to the await of fn() *)
CBExecute ==
    /\ cbPrev' = CBBefore("execute")
    /\ InFlightTotal < MaxInFlight
    /\ IF ~cbConfig.enabled
       THEN /\ inFlight' = [inFlight EXCEPT !.bypass = @ + 1]
            /\ cbLast' = "passed"
       ELSE IF circuitState = "open"
       THEN /\ cbLast' = "CIRCUIT_OPEN"
            /\ UNCHANGED inFlight
       ELSE /\ inFlight' = [inFlight EXCEPT !.counted = @ + 1]
            /\ cbLast' = "passed"
    /\ UNCHANGED <<now, poolVars, dispVars, circuitState, failureCount, lastFailureTime,
                   lastStateChange, cbConfig, streak>>

(* testRecovery, up to the await of fn() *)
CBTestRecovery ==
    /\ cbPrev' = CBBefore("testRecovery")
    /\ InFlightTotal < MaxInFlight
    /\ IF circuitState # "open"
       THEN /\ inFlight' = [inFlight EXCEPT !.plain = @ + 1]
            /\ cbLast' = "passed"
            /\ UNCHANGED <<circuitState, lastStateChange, streak>>
       ELSE IF now - lastFailureTime >= cbConfig.timeout
       THEN /\ circuitState' = "half-open"
            /\ lastStateChange' = now
            /\ inFlight' = [inFlight EXCEPT !.trial = @ + 1]
            /\ cbLast' = "trial"
            /\ streak' = Undefined
       ELSE /\ cbLast' = "CIRCUIT_OPEN"
            /\ UNCHANGED <<circuitState, lastStateChange, inFlight, streak>>
    /\ UNCHANGED <<now, poolVars, dispVars, failureCount, lastFailureTime, cbConfig>>

(* fn() resolves in a call of execute or a trial call: onSuccess *)
CBCallSucceeds ==
    /\ \E k \in {"counted", "trial"} :
          /\ inFlight[k] > 0
          /\ inFlight' = [inFlight EXCEPT ![k] = @ - 1]
          /\ cbPrev' = CBBefore(k)
    /\ failureCount' = 0
    /\ circuitState' = onSuccessState(circuitState)
    /\ lastStateChange' = IF circuitState # "closed" THEN now ELSE lastStateChange
    /\ cbLast' = "success"
    /\ streak' = StreakAfter(circuitState', failureCount')
    /\ UNCHANGED <<now, poolVars, dispVars, lastFailureTime, cbConfig>>

(* fn() rejects in a call of execute or a trial call: onFailure *)
CBCallFails ==
    /\ failureCount < MaxFailures
    /\ \E k \in {"counted", "trial"} :
          /\ inFlight[k] > 0
          /\ inFlight' = [inFlight EXCEPT ![k] = @ - 1]
          /\ cbPrev' = CBBefore(k)
    /\ failureCount' = failureCount + 1
    /\ lastFailureTime' = now
    /\ circuitState' =
          onFailureState(circuitState, failureCount', cbConfig.threshold)
    /\ lastStateChange' = IF circuitState' # circuitState THEN now ELSE lastStateChange
    /\ cbLast' = "failure"
    /\ streak' = IF streak = Undefined THEN Undefined ELSE streak + 1
    /\ UNCHANGED <<now, poolVars, dispVars, cbConfig>>

(* the outcome of a call execute passed through with the breaker disabled: *)
(* return fn() touches no field                                            *)
CBBypassReturns ==
    /\ cbPrev' = CBBefore("bypass")
    /\ inFlight.bypass > 0
    /\ inFlight' = [inFlight EXCEPT !.bypass = @ - 1]
    /\ \E ok \in BOOLEAN :
          /\ ok \/ streak < MaxFailures
          /\ cbLast' = IF ok THEN "success" ELSE "failure"
          /\ streak' = IF ok THEN StreakAfter(circuitState, failureCount)
                       ELSE IF streak = Undefined THEN Undefined ELSE streak + 1
    /\ UNCHANGED <<now, poolVars, dispVars, circuitState, failureCount, lastFailureTime,
                   lastStateChange, cbConfig>>

(* the outcome of a call testRecovery passed through on a circuit that was *)
(* not open: return fn() touches no field                                  *)
CBPlainReturns ==
    /\ cbPrev' = CBBefore("plain")
    /\ inFlight.plain > 0
    /\ inFlight' = [inFlight EXCEPT !.plain = @ - 1]
    /\ \E ok \in BOOLEAN : cbLast' = IF ok THEN "success" ELSE "failure"
    /\ UNCHANGED <<now, poolVars, dispVars, circuitState, failureCount, lastFailureTime,
                   lastStateChange, cbConfig, streak>>

CBForceOpen ==
    /\ cbPrev' = CBBefore("forceOpen")
    /\ circuitState' = "open"
    /\ lastStateChange' = now
    /\ lastFailureTime' = now
    /\ cbLast' = "forceOpen"
    /\ streak' = Undefined
    /\ UNCHANGED <<now, poolVars, dispVars, failureCount, cbConfig, inFlight>>

(* a forceClose that leaves failureCount as it is *)
CBForceCloseKeepsCount ==
    /\ cbPrev' = CBBefore("forceClose")
    /\ circuitState' = "closed"
    /\ lastStateChange' = now
    /\ cbLast' = "forceClose"
    /\ streak' = Undefined
    /\ UNCHANGED <<now, poolVars, dispVars, failureCount, lastFailureTime,
                   cbConfig, inFlight>>

CBForceClose ==
    /\ cbPrev' = CBBefore("forceClose")
    /\ circuitState' = "closed"
    /\ failureCount' = 0
    /\ lastStateChange' = now
    /\ cbLast' = "forceClose"
    /\ streak' = 0
    /\ UNCHANGED <<now, poolVars, dispVars, lastFailureTime, cbConfig, inFlight>>

CBReset ==
    /\ cbPrev' = CBBefore("reset")
    /\ circuitState' = "closed"
    /\ failureCount' = 0
    /\ lastFailureTime' = 0
    /\ lastStateChange' = now
    /\ cbLast' = "reset"
    /\ streak' = 0
    /\ UNCHANGED <<now, poolVars, dispVars, cbConfig, inFlight>>

(***************************************************************************)
(* Market classifier (market-router.ts).  A symbol is the sequence of its  *)
(* characters.                                                             *)
(***************************************************************************)
Digits == {"0", "1", "2", "3", "4", "5", "6", "7", "8", "9"}

UpperLetters == {"A", "B", "H", "J", "K", "L", "N", "O", "P", "S", "U", "Z"}

(* String.prototype.toUpperCase on one character *)
toUpperChar(c) ==
    CASE c = "a" -> "A" [] c = "b" -> "B" [] c = "h" -> "H" [] c = "j" -> "J"
      [] c = "k" -> "K" [] c = "l" -> "L" [] c = "n" -> "N" [] c = "o" -> "O"
      [] c = "p" -> "P" [] c = "s" -> "S" [] c = "u" -> "U" [] c = "z" -> "Z"
      [] OTHER -> c

toUpperCase(str) == [i \in 1..Len(str) |-> toUpperChar(str[i])]

endsWith(str, suffix) ==
    /\ Len(str) >= Len(suffix)
    /\ SubSeq(str, Len(str) - Len(suffix) + 1, Len(str)) = suffix

(* symbol.replace(/\D/g, '') *)
digitsOf(str) == SelectSeq(str, LAMBDA c : c \in Digits)

(* /^XX\d{6}$/i.test(symbol), XX a two-letter exchange prefix *)
isPrefixedCode(str, prefix) ==
    /\ Len(str) = 8
    /\ SubSeq(toUpperCase(str), 1, 2) = prefix
    /\ \A i \in 3..8 : str[i] \in Digits

(* /^[A-Z]{1,5}$/.test(symbol) *)
isBareTicker(str) ==
    /\ Len(str) \in 1..5
    /\ \A i \in 1..Len(str) : str[i] \in UpperLetters

getMarketFromSymbol(sym) ==
    LET upper == toUpperCase(sym)
        code == digitsOf(sym)
        prefix == IF Len(code) > 0 THEN code[1] ELSE ""
    IN  IF endsWith(upper, <<".", "S", "H">>) \/ endsWith(upper, <<".", "S", "S">>)
            THEN "SH"
        ELSE IF endsWith(upper, <<".", "S", "Z">>) THEN "SZ"
        ELSE IF endsWith(upper, <<".", "B", "J">>) THEN "BJ"
        ELSE IF endsWith(upper, <<".", "H", "K">>) THEN "HK"
        ELSE IF \/ endsWith(upper, <<".", "U", "S">>)
                \/ endsWith(upper, <<".", "N">>)
                \/ endsWith(upper, <<".", "O">>) THEN "US"
        ELSE IF isPrefixedCode(sym, <<"S", "H">>) THEN "SH"
        ELSE IF isPrefixedCode(sym, <<"S", "Z">>) THEN "SZ"
        ELSE IF isPrefixedCode(sym, <<"B", "J">>) THEN "BJ"
        ELSE IF Len(code) = 6 /\ prefix \in {"6", "5"} THEN "SH"
        ELSE IF Len(code) = 6 /\ prefix \in {"0", "3", "2"} THEN "SZ"
        ELSE IF Len(code) = 6 /\ prefix \in {"4", "8"} THEN "BJ"
        ELSE IF Len(code) = 5 THEN "HK"
        ELSE IF isBareTicker(sym) THEN "US"
        ELSE "UNKNOWN"

(***************************************************************************)
(* Source router (source-router.ts).                                       *)
(***************************************************************************)
Sources == {"finnhub", "alphavantage", "twelvedata", "tiingo", "sina", "eastmoney"}

OPTIMAL_SOURCE_MAP ==
    [get_stock_quote |->
        <<"finnhub", "twelvedata", "tiingo", "alphavantage", "sina", "eastmoney">>,
     get_stock_candles |-> <<"twelvedata", "finnhub", "tiingo", "sina", "eastmoney">>,
     get_stock_price_history |->
        <<"twelvedata", "finnhub", "tiingo", "alphavantage", "sina", "eastmoney">>,
     get_technical_indicator |-> <<"twelvedata", "alphavantage">>,
     get_daily_prices |->
        <<"tiingo", "alphavantage", "twelvedata", "sina", "eastmoney">>,
     get_news |-> <<"tiingo", "finnhub">>,
     get_quote |-> <<"twelvedata", "tiingo", "alphavantage", "sina", "eastmoney">>,
     get_company_overview |-> <<"tiingo", "alphavantage">>,
     get_company_info |-> <<"finnhub", "alphavantage", "tiingo">>,
     get_financials |-> <<"finnhub", "alphavantage">>,
     get_company_basic_financials |-> <<"finnhub">>,
     get_company_metrics |-> <<"finnhub">>,
     get_income_statement |-> <<"alphavantage">>,
     get_balance_sheet |-> <<"alphavantage">>,
     get_cash_flow |-> <<"alphavantage">>]

(* a coverage table that lets finnhub serve the Shanghai market *)
MarketFilterWithFinnhubForSH ==
    [US |-> <<"finnhub", "twelvedata", "tiingo", "alphavantage">>,
     SH |-> <<"finnhub", "sina", "eastmoney">>,
     SZ |-> <<"sina", "eastmoney">>,
     BJ |-> <<"sina", "eastmoney">>,
     HK |-> <<"finnhub", "twelvedata", "sina">>,
     UNKNOWN |-> <<"finnhub", "alphavantage", "sina", "eastmoney">>]

MARKET_SOURCE_FILTER ==
    [US |-> <<"finnhub", "twelvedata", "tiingo", "alphavantage">>,
     SH |-> <<"sina", "eastmoney">>,
     SZ |-> <<"sina", "eastmoney">>,
     BJ |-> <<"sina", "eastmoney">>,
     HK |-> <<"finnhub", "twelvedata", "sina">>,
     UNKNOWN |-> <<"finnhub", "alphavantage", "sina", "eastmoney">>]

Range(seq) == {seq[i] : i \in 1..Len(seq)}

(* loadCustomPriorities with no SOURCE_PRIORITY_<TOOL> variable set *)
NoCustomPriorities == [t \in DOMAIN OPTIMAL_SOURCE_MAP |-> << >>]

(* parseSourcePriorityEnv keeps the valid entries of the variable in the   *)
(* order written, repeated entries included; this is the map loaded from   *)
(* SOURCE_PRIORITY_GET_TECHNICAL_INDICATOR=alphavantage,twelvedata,alphavantage *)
RepeatedCustomPriority ==
    [NoCustomPriorities EXCEPT
        !["get_technical_indicator"] = <<"alphavantage", "twelvedata", "alphavantage">>]

(* a router that returns the providers in the order of the coverage list   *)
(* of the market instead of the order of the priority list                 *)
getSourcesForToolInMarketOrder(custom, tool, sym) ==
    LET base == IF tool \in DOMAIN custom /\ custom[tool] # << >>
                    THEN custom[tool]
                ELSE IF tool \in DOMAIN OPTIMAL_SOURCE_MAP
                     THEN OPTIMAL_SOURCE_MAP[tool]
                ELSE <<"finnhub">>
    IN  IF sym = << >> THEN base
        ELSE LET marketSources == MARKET_SOURCE_FILTER[getMarketFromSymbol(sym)]
                 filtered == SelectSeq(marketSources, LAMBDA x : x \in Range(base))
             IN  IF filtered = << >> THEN marketSources ELSE filtered

(* getSourcesForTool; custom is customPriorities, symbol << >> when the   *)
(* argument is absent or the empty string                                  *)
getSourcesForTool(custom, tool, sym) ==
    LET base == IF tool \in DOMAIN custom /\ custom[tool] # << >>
                    THEN custom[tool]
                ELSE IF tool \in DOMAIN OPTIMAL_SOURCE_MAP
                     THEN OPTIMAL_SOURCE_MAP[tool]
                ELSE <<"finnhub">>
    IN  IF sym = << >> THEN base
        ELSE LET marketSources == MARKET_SOURCE_FILTER[getMarketFromSymbol(sym)]
                 filtered == SelectSeq(base, LAMBDA x : x \in Range(marketSources))
             IN  IF filtered = << >> THEN marketSources ELSE filtered

(***************************************************************************)
(* Capabilities.  A provider supports a tool when its client has the       *)
(* method the executor of the tool calls (createExecutor looks the method  *)
(* up at run time).                                                        *)
(***************************************************************************)
ClientMethods ==
    [finnhub |-> {"getStockQuote", "getQuote", "getStockCandles", "getNews"},
     alphavantage |-> {"getDailyPrices", "getQuote", "getStockQuote",
                       "getCompanyOverview", "getTechnicalIndicator"},
     twelvedata |-> {"getStockQuote", "getQuote", "getStockCandles",
                     "getTechnicalIndicator"},
     tiingo |-> {"getQuote", "getStockQuote", "getStockCandles", "getDailyPrices",
                 "getNews", "getCompanyOverview"},
     sina |-> {"getStockQuote", "getQuote", "getStockCandles", "getDailyPrices"},
     eastmoney |-> {"getStockQuote", "getQuote", "getStockCandles",
                    "getDailyPrices"}]

(* createExecutor: the client methods the executor of a tool accepts *)
ExecutorMethods ==
    [get_stock_quote |-> {"getStockQuote"},
     get_stock_candles |-> {"getStockCandles"},
     get_daily_prices |-> {"getDailyPrices"},
     get_news |-> {"getNews"},
     get_quote |-> {"getQuote", "getStockQuote"},
     get_company_overview |-> {"getCompanyOverview"},
     get_technical_indicator |-> {"getTechnicalIndicator"}]

(* the executor of tool finds its method on the client of source s *)
supportsTool(s, tool) == ExecutorMethods[tool] \cap ClientMethods[s] # {}

(***************************************************************************)
(* Error detection (error-detection.ts).  An error is a record: instance   *)
(* tells whether the thrown value is an Error, message is the set of the   *)
(* marker substrings its lower-cased message contains.                     *)
(***************************************************************************)
Err(markers) == [instance |-> TRUE, message |-> markers]

NoError == [instance |-> FALSE, message |-> {}]

RateLimitMarkers ==
    {"429", "rate limit", "rate-limit", "ratelimit", "too many requests",
     "quota exceeded", "api limit", "throttl"}

TransientMarkers ==
    {"500", "502", "503", "504", "timeout", "econnreset", "econnrefused", "network"}

(* a rate-limit test that gives way to a timeout marker in the message *)
isRateLimitErrorUnlessTimeout(error) ==
    /\ error.instance
    /\ error.message \cap RateLimitMarkers # {}
    /\ error.message \cap {"timeout", "timed out"} = {}

isRateLimitError(error) ==
    error.instance /\ error.message \cap RateLimitMarkers # {}

isTransientError(error) ==
    error.instance /\ error.message \cap TransientMarkers # {}

(* isTimeoutError (api-timeout.ts): a TimeoutError, whose message says      *)
(* "timed out", or an Error whose message contains one of the two markers  *)
isTimeoutError(error) ==
    error.instance /\ error.message \cap {"timeout", "timed out"} # {}

(* the class the error handling gives an error: the catch block of         *)
(* executeWithKeyRotation asks isRateLimitError first; of the errors it    *)
(* rethrows, the timeout test and the transient test tell the retryable    *)
(* ones                                                                    *)
classify(error) ==
    IF isRateLimitError(error) THEN "RATE_LIMIT"
    ELSE IF isTimeoutError(error) THEN "TIMEOUT"
    ELSE IF isTransientError(error) THEN "TRANSIENT"
    ELSE "PERMANENT"

(* a test that fails over on the rate-limit and transient errors only *)
shouldFailoverOnRetryableOnly(error) ==
    isRateLimitError(error) \/ isTransientError(error)

shouldFailoverToNextSource(error) ==
    isRateLimitError(error) \/ isTransientError(error) \/ error.instance

(***************************************************************************)
(* ResilientApiClient (resilient-api-client.ts) and the clients the server *)
(* constructs (server.ts).                                                 *)
(***************************************************************************)
MaxDispatches == 2

(* DEFAULT_RESILIENCE_CONFIG, the configuration of the client the server   *)
(* constructs: the field the cascade is documented to depend on            *)
DEFAULT_RESILIENCE_CONFIG == [apiFailoverEnabled |-> TRUE]

(* the environment value the KeyManager of source s was built from *)
KeyEnv(s) == [j \in 1..getTotalKeyCount(keys[s]) |-> keys[s][j - 1].key[1]]

(* getClientForSource: whether a client exists.  The server always builds  *)
(* the finnhub and alphavantage clients, the twelvedata and tiingo clients *)
(* only when their variable is set; sina and eastmoney are built by the    *)
(* constructor.                                                            *)
getClientForSource(s) ==
    \/ s \in {"finnhub", "alphavantage", "sina", "eastmoney"}
    \/ s \in KeyedSources /\ getTotalKeyCount(keys[s]) > 0

(* initializeKeyManagers: the sources that have a KeyManager *)
hasKeyManager(s) == s \in KeyedSources /\ getClientForSource(s)

(* the credential a client puts in its requests: the apiKey it was         *)
(* constructed with, which is the whole environment value; the key-less    *)
(* clients send none                                                       *)
clientApiKey(s) == IF s \in KeyedSources THEN KeyEnv(s) ELSE << >>

(* an availability test that answers false for a source without KeyManager *)
isSourceAvailableNeedsKey(s) ==
    /\ getClientForSource(s)
    /\ hasKeyManager(s)
    /\ hasAvailableKey(keys[s], now)

(* isSourceAvailable, on the key lists hasAvailableKey has swept *)
isSourceAvailable(s) ==
    /\ getClientForSource(s)
    /\ hasKeyManager(s) => hasAvailableKey(keys[s], now)

(* the key lists after isSourceAvailable(s) *)
keysAfterAvailabilityCheck(s) ==
    IF hasKeyManager(s)
    THEN [keys EXCEPT ![s] = checkAndResetCooldowns(@, now)]
    ELSE keys

(* getCurrentKeyIndex, 0 for a source without KeyManager *)
getCurrentKeyIndex(s) == IF hasKeyManager(s) THEN currentIndexes[s] ELSE 0

Attempt(s, k, ok, e) == [source |-> s, keyIndex |-> k, success |-> ok, error |-> e]

(* the request fn() sends upstream: executor(source) calls the client of   *)
(* the source                                                              *)
Request(s) == [source |-> s, credential |-> clientApiKey(s), acquired |-> keyInfo']

NoResult == [kind |-> "none", source |-> "", error |-> NoError]

AllKeysExhausted == Err({"all keys exhausted"})

(* the error the executor throws, before any request, when the client of   *)
(* the source lacks the method of the tool                                 *)
NotSupported == Err({"does not support"})

(* the calls after fn() was invoked for source s: the executor sends a     *)
(* request only when the client has the method                             *)
callsAfterInvoke(s) ==
    IF supportsTool(s, toolName) THEN Append(calls, Request(s)) ELSE calls

(* an aggregate error whose message is that of the last failed attempt     *)
AggregateErrorOfLastAttempt(atts) ==
    [instance |-> TRUE,
     message |-> {"all sources failed", toolName} \cup
                 (IF atts = << >> THEN {} ELSE atts[Len(atts)].error.message),
     attempts |-> atts]

(* the aggregate error: its message names the tool and joins the messages  *)
(* of the failed attempts; the attempts list is attached to it             *)
AggregateError(atts) ==
    [instance |-> TRUE,
     message |-> {"all sources failed", toolName} \cup
                 UNION {atts[i].error.message :
                           i \in {j \in 1..Len(atts) : ~atts[j].success}},
     attempts |-> atts]

(***************************************************************************)
(* withRetry and isRetryableError (api-retry.ts).                          *)
(***************************************************************************)
MaxRetryAttempts == 3

(* the value parseInt gives a text that is not a number *)
NaN == -100

(* attempt < maxAttempts, false when a side is NaN *)
lessThan(a, b) == a # NaN /\ b # NaN /\ a < b

(* attempt === maxAttempts - 1, false when maxAttempts is NaN *)
isLastAttempt(a, maxAttempts) == maxAttempts # NaN /\ a = maxAttempts - 1

(* the three-digit numbers the messages of the errors contain *)
StatusCodes == ("429" :> 429) @@ ("404" :> 404) @@ ("500" :> 500)

(* extractStatusCode: the three-digit number in the message, if any (the   *)
(* messages explored contain at most one)                                  *)
extractStatusCode(error) ==
    IF \E c \in DOMAIN StatusCodes : c \in error.message
    THEN StatusCodes[CHOOSE c \in DOMAIN StatusCodes : c \in error.message]
    ELSE Undefined

isRetryableError(error) ==
    LET statusCode == extractStatusCode(error)
    IN  IF ~error.instance THEN FALSE
        ELSE IF error.message \cap {"timeout", "timed out", "connection refused",
                                    "network error"} # {} THEN TRUE
        ELSE IF statusCode # Undefined /\ statusCode >= 500 /\ statusCode < 600
            THEN TRUE
        ELSE IF statusCode = 429 THEN TRUE
        ELSE IF statusCode # Undefined /\ statusCode >= 400 /\ statusCode < 500
                /\ statusCode # 429 THEN FALSE
        ELSE {"json", "parse"} \subseteq error.message

(* the retry fields of DEFAULT_RESILIENCE_CONFIG *)
DEFAULT_RETRY_CONFIG == [retryEnabled |-> TRUE, retryMaxAttempts |-> 3]

NoOutcome == [kind |-> "none", cause |-> NoError]

(* withRetry(fn, config) has been called and has not run yet *)
RetryCall(c) ==
    [config |-> c, pc |-> "start", attempt |-> 0, invoked |-> 0,
     outcome |-> NoOutcome]

(* the errors fn can reject with, and a thrown value that is not an Error *)
RetryErrors ==
    {Err({"timeout"}), Err({"500"}), Err({"429"}), Err({"404"}),
     Err({"invalid symbol"}), Err({"json", "parse"}), NoError}

(* the frame of the steps of withRetry *)
RetryFrame ==
    UNCHANGED <<now, poolVars, cbVars, customPriorities, circuitBreakers,
                config, adapterVars, errorClass, market, pc, toolName, symbol,
                skipped, deadlinePassed, sources, pos, attempts, keyIndex,
                attempt, keyInfo, lastError, calls, result, dispatches>>

(* the head of withRetry: with retry disabled fn() is returned; else the   *)
(* for loop is entered                                                     *)
RetryEnter ==
    /\ retry.pc = "start"
    /\ retry' = IF ~retry.config.retryEnabled
                THEN [retry EXCEPT !.pc = "plain", !.invoked = @ + 1]
                ELSE [retry EXCEPT !.pc = "head"]
    /\ RetryFrame

(* the test of the for loop: fn() is called, or the loop ends and the last *)
(* statement of withRetry throws                                           *)
RetryLoopTest ==
    /\ retry.pc = "head"
    /\ retry' = IF lessThan(retry.attempt, retry.config.retryMaxAttempts)
                THEN [retry EXCEPT !.pc = "call", !.invoked = @ + 1]
                ELSE [retry EXCEPT !.pc = "done",
                        !.outcome = [kind |-> "unreachable",
                                     cause |-> Err({"retry logic failed"})]]
    /\ RetryFrame

(* fn() resolves: its result is returned *)
RetryFnResolves ==
    /\ retry.pc \in {"plain", "call"}
    /\ retry' = [retry EXCEPT !.pc = "done",
                    !.outcome = [kind |-> "ok", cause |-> NoError]]
    /\ RetryFrame

(* a catch block that tests attempt === maxAttempts for the last attempt *)
RetryFnRejectsOffByOne ==
    /\ retry.pc \in {"plain", "call"}
    /\ \E e \in RetryErrors :
          retry' =
            IF retry.pc = "plain" \/ ~isRetryableError(e)
            THEN [retry EXCEPT !.pc = "done",
                    !.outcome = [kind |-> "rethrown", cause |-> e]]
            ELSE IF isLastAttempt(retry.attempt - 1, retry.config.retryMaxAttempts)
            THEN [retry EXCEPT !.pc = "done",
                    !.outcome = [kind |-> "RetryError", cause |-> e]]
            ELSE [retry EXCEPT !.pc = "delay"]
    /\ RetryFrame

(* fn() rejects with e: without retry the rejection is the outcome; in the *)
(* loop a non-retryable error is rethrown, the last attempt ends with a    *)
(* RetryError whose cause is e, and otherwise the delay is awaited         *)
RetryFnRejects ==
    /\ retry.pc \in {"plain", "call"}
    /\ \E e \in RetryErrors :
          retry' =
            IF retry.pc = "plain" \/ ~isRetryableError(e)
            THEN [retry EXCEPT !.pc = "done",
                    !.outcome = [kind |-> "rethrown", cause |-> e]]
            ELSE IF isLastAttempt(retry.attempt, retry.config.retryMaxAttempts)
            THEN [retry EXCEPT !.pc = "done",
                    !.outcome = [kind |-> "RetryError", cause |-> e]]
            ELSE [retry EXCEPT !.pc = "delay"]
    /\ RetryFrame

(* the backoff delay is over: attempt++ *)
RetryDelayEnds ==
    /\ retry.pc = "delay"
    /\ retry' = [retry EXCEPT !.pc = "head", !.attempt = @ + 1]
    /\ RetryFrame

(* withRetry has returned or thrown; it is called again *)
RetryAgain ==
    /\ retry.pc = "done"
    /\ retry' = RetryCall(retry.config)
    /\ RetryFrame

(***************************************************************************)
(* SinaClient (sina.ts); EastMoneyClient (eastmoney.ts) has the same       *)
(* waitForRateLimit and request.  Time is counted in units of 100 ms.      *)
(***************************************************************************)
MaxCallers == 3

MaxRequests == 4

(* config?.requestIntervalMs ?? 200 *)
requestIntervalMs == 2

Callers == 1..MaxCallers

(* the client after construction, no call in progress.  lastRequestTime    *)
(* starts at 0 while Date.now() is far beyond the interval; with the clock *)
(* of the model starting at 0 the field starts one interval earlier.       *)
AdapterIdle ==
    /\ lastRequestTime = 0 - requestIntervalMs
    /\ callers = [c \in Callers |-> [pc |-> "idle", wake |-> Undefined]]
    /\ requestTimes = << >>

(* the calls of request waiting in setTimeout *)
Sleeping == {c \in Callers : callers[c].pc = "sleep"}

(* the end of waitForRateLimit and the call of fetch that follows it *)
StartFetch(c) ==
    /\ lastRequestTime' = now
    /\ requestTimes' = Append(requestTimes, now)
    /\ callers' = [callers EXCEPT ![c] = [pc |-> "fetch", wake |-> Undefined]]

(* request(url) is called: waitForRateLimit reads the clock and            *)
(* lastRequestTime, and either goes to sleep for the rest of the interval  *)
(* or returns at once                                                      *)
AdapterRequest(c) ==
    /\ callers[c].pc = "idle"
    /\ Len(requestTimes) + Cardinality(Sleeping) < MaxRequests
    /\ LET elapsed == now - lastRequestTime
       IN  IF elapsed < requestIntervalMs
           THEN /\ callers' = [callers EXCEPT ![c] =
                        [pc |-> "sleep",
                         wake |-> now + (requestIntervalMs - elapsed)]]
                /\ UNCHANGED <<lastRequestTime, requestTimes>>
           ELSE StartFetch(c)
    /\ UNCHANGED <<now, poolVars, cbVars, customPriorities, circuitBreakers,
                   config, errorClass, market, retry, pc, toolName, symbol, skipped,
                   deadlinePassed, sources, pos, attempts, keyIndex, attempt,
                   keyInfo, lastError, calls, result, dispatches>>

(* the timer of a sleeping call fires: lastRequestTime is set and fetch is *)
(* called                                                                  *)
AdapterWake(c) ==
    /\ callers[c].pc = "sleep"
    /\ now >= callers[c].wake
    /\ StartFetch(c)
    /\ UNCHANGED <<now, poolVars, cbVars, customPriorities, circuitBreakers,
                   config, errorClass, market, retry, pc, toolName, symbol, skipped,
                   deadlinePassed, sources, pos, attempts, keyIndex, attempt,
                   keyInfo, lastError, calls, result, dispatches>>

(* fetch settles and request returns or throws *)
AdapterResponse(c) ==
    /\ callers[c].pc = "fetch"
    /\ callers' = [callers EXCEPT ![c] = [pc |-> "idle", wake |-> Undefined]]
    /\ UNCHANGED <<now, poolVars, cbVars, customPriorities, circuitBreakers,
                   config, lastRequestTime, requestTimes, errorClass, market, retry, pc,
                   toolName, symbol, skipped, deadlinePassed, sources, pos,
                   attempts, keyIndex, attempt, keyInfo, lastError, calls,
                   result, dispatches>>

(* no dispatch is running *)
DispatchIdle ==
    /\ AdapterIdle
    /\ errorClass = ""
    /\ market = ""
    /\ retry = RetryCall(DEFAULT_RETRY_CONFIG)
    /\ pc = "idle"
    /\ toolName = ""
    /\ symbol = << >>
    /\ skipped = << >>
    /\ deadlinePassed = FALSE
    /\ sources = << >>
    /\ pos = 0
    /\ attempts = << >>
    /\ keyIndex = 0
    /\ attempt = 0
    /\ keyInfo = Undefined
    /\ lastError = NoError
    /\ calls = << >>
    /\ result = NoResult

DispIdle ==
    /\ customPriorities = NoCustomPriorities
    /\ circuitBreakers = << >>
    /\ config = DEFAULT_RESILIENCE_CONFIG
    /\ DispatchIdle
    /\ dispatches = 0

(* the tools and symbols of the dispatches explored *)
DispatchTools == {"get_stock_quote", "get_technical_indicator"}

AAPL == <<"A", "A", "P", "L">>

ZIJIN == <<"6", "0", "1", "8", "9", "9", ".", "s", "h">>

DispatchSymbols == {AAPL, ZIJIN}

(* the errors an upstream call can fail with *)
UpstreamErrors == {Err({"429"}), Err({"500"}), Err({"404"})}

(* a facade method calls executeWithCascadingFailover(toolName, executor,  *)
(* symbol): the statements before the for loop                             *)
Dispatch(tool, sym) ==
    /\ pc = "idle"
    /\ dispatches < MaxDispatches
    /\ toolName' = tool
    /\ symbol' = sym
    /\ sources' = getSourcesForTool(customPriorities, tool, sym)
    /\ pos' = 1
    /\ skipped' = << >>
    /\ deadlinePassed' = FALSE
    /\ attempts' = << >>
    /\ calls' = << >>
    /\ result' = NoResult
    /\ lastError' = NoError
    /\ keyIndex' = 0
    /\ attempt' = 0
    /\ keyInfo' = Undefined
    /\ pc' = "next"
    /\ dispatches' = dispatches + 1
    /\ UNCHANGED <<now, poolVars, cbVars, customPriorities, circuitBreakers, config, adapterVars, errorClass, market, retry>>

(* a dispatch for one of the tools and symbols explored *)
StartDispatch ==
    \E tool \in DispatchTools, sym \in DispatchSymbols : Dispatch(tool, sym)

(* the arguments of a tool call: with a symbol, or without (typedArgs.symbol *)
(* is undefined, which the model writes << >>)                             *)
ToolArguments == {[symbol |-> AAPL], [symbol |-> << >>]}

(* the CallToolRequestSchema handler of the server: the case of the tool   *)
(* passes typedArgs.symbol to the method of the client, which dispatches   *)
CallTool ==
    \E tool \in DispatchTools, args \in ToolArguments :
        Dispatch(tool, args.symbol)

(* a catch block that tries the failed source again instead of moving on *)
SourceFailsRetriesSource(e) ==
    /\ attempts' = Append(attempts, Attempt(sources[pos], keyIndex, FALSE, e))
    /\ pc' = "next"
    /\ UNCHANGED <<pos, result>>

(* the catch block of executeWithCascadingFailover for error e thrown by   *)
(* executeWithKeyRotation on the source at pos                             *)
SourceFails(e) ==
    /\ attempts' = Append(attempts, Attempt(sources[pos], keyIndex, FALSE, e))
    /\ IF shouldFailoverToNextSource(e)
       THEN /\ pos' = pos + 1
            /\ pc' = "next"
            /\ UNCHANGED result
       ELSE /\ pc' = "done"
            /\ result' = [kind |-> "thrown", source |-> "", error |-> e]
            /\ UNCHANGED pos

(* a loop that logs a failed attempt for the source it passes over *)
SkipSourceRecordsAttempt ==
    /\ pc = "next"
    /\ pos <= Len(sources)
    /\ ~isSourceAvailable(sources[pos])
    /\ keys' = keysAfterAvailabilityCheck(sources[pos])
    /\ pos' = pos + 1
    /\ skipped' = Append(skipped, pos)
    /\ attempts' = Append(attempts, Attempt(sources[pos], 0, FALSE,
                                            Err({"unavailable"})))
    /\ UNCHANGED <<now, currentIndexes, resetWindow, lastCall, cbVars,
                   customPriorities, circuitBreakers, config, adapterVars, errorClass, market, retry, pc, toolName,
                   symbol, deadlinePassed, sources, keyIndex,
                   attempt, keyInfo, lastError, calls, result, dispatches>>

(* for (const source of sources): the source is not available *)
SkipSource ==
    /\ pc = "next"
    /\ pos <= Len(sources)
    /\ ~isSourceAvailable(sources[pos])
    /\ keys' = keysAfterAvailabilityCheck(sources[pos])
    /\ pos' = pos + 1
    /\ skipped' = Append(skipped, pos)
    /\ UNCHANGED <<now, currentIndexes, resetWindow, lastCall, cbVars,
                   customPriorities, circuitBreakers, config, adapterVars, errorClass, market, retry, pc, toolName,
                   symbol, deadlinePassed, sources, attempts, keyIndex,
                   attempt, keyInfo, lastError, calls, result, dispatches>>

(* for (const source of sources): the source is available; keyIndex is     *)
(* read and executeWithKeyRotation is entered.  Without KeyManager it      *)
(* calls fn() at once.                                                     *)
EnterSource ==
    /\ pc = "next"
    /\ pos <= Len(sources)
    /\ isSourceAvailable(sources[pos])
    /\ keys' = keysAfterAvailabilityCheck(sources[pos])
    /\ keyIndex' = getCurrentKeyIndex(sources[pos])
    /\ attempt' = 0
    /\ lastError' = NoError
    /\ keyInfo' = Undefined
    /\ IF hasKeyManager(sources[pos])
       THEN /\ pc' = "rotate"
            /\ UNCHANGED calls
       ELSE /\ pc' = "await"
            /\ calls' = callsAfterInvoke(sources[pos])
    /\ UNCHANGED <<now, currentIndexes, resetWindow, lastCall, cbVars,
                   customPriorities, circuitBreakers, config, adapterVars, errorClass, market, retry, toolName, symbol, skipped, deadlinePassed, sources, pos, attempts, result,
                   dispatches>>

(* the head of the for loop of executeWithKeyRotation: the loop ends, or   *)
(* getNextKey returns null, or a key is acquired and fn() is called        *)
AcquireKey ==
    /\ pc = "rotate"
    /\ LET s == sources[pos]
           k == getNextKey(keys[s], currentIndexes[s])
       IN  IF attempt >= getTotalKeyCount(keys[s]) \/ k = Undefined
           THEN /\ SourceFails(IF lastError.instance THEN lastError
                               ELSE AllKeysExhausted)
                /\ UNCHANGED <<currentIndexes, keyInfo, calls>>
           ELSE /\ currentIndexes' = [currentIndexes EXCEPT ![s] = k]
                /\ keyInfo' = k
                /\ calls' = callsAfterInvoke(s)
                /\ pc' = "await"
                /\ UNCHANGED <<attempts, pos, result>>
    /\ UNCHANGED <<now, keys, resetWindow, lastCall, cbVars, customPriorities, circuitBreakers, config, adapterVars, errorClass, market, retry,
                   toolName, symbol, skipped, deadlinePassed, sources, keyIndex, attempt, lastError, dispatches>>

(* a dispatcher that records the success but does not return: the loop     *)
(* goes on with the next source                                            *)
UpstreamSucceedsWithoutReturn ==
    /\ pc = "await"
    /\ attempts' = Append(attempts, Attempt(sources[pos], keyIndex, TRUE, NoError))
    /\ pos' = pos + 1
    /\ pc' = "next"
    /\ UNCHANGED <<now, poolVars, cbVars, customPriorities, circuitBreakers, config, adapterVars, errorClass, market, retry, toolName, symbol, skipped, deadlinePassed, sources,
                   keyIndex, attempt, keyInfo, lastError, calls, result,
                   dispatches>>

(* fn() resolves: recordUsage, the success attempt, the result *)
UpstreamSucceeds ==
    /\ pc = "await"
    /\ supportsTool(sources[pos], toolName)
    /\ LET s == sources[pos]
       IN  /\ IF hasKeyManager(s)
              THEN /\ keys' = [keys EXCEPT ![s] = recordUsage(@, keyInfo)]
                   /\ currentIndexes' = [currentIndexes EXCEPT ![s] = keyInfo]
              ELSE UNCHANGED <<keys, currentIndexes>>
           /\ attempts' = Append(attempts, Attempt(s, keyIndex, TRUE, NoError))
           /\ result' = [kind |-> "ok", source |-> s, error |-> NoError]
    /\ pc' = "done"
    /\ UNCHANGED <<now, resetWindow, lastCall, cbVars, customPriorities, circuitBreakers, config, adapterVars, errorClass, market, retry, toolName, symbol, skipped, deadlinePassed,
                   sources, pos, keyIndex, attempt, keyInfo, lastError, calls,
                   dispatches>>

(* a catch block that puts the key in cooldown on every error of a source  *)
(* with KeyManager                                                         *)
UpstreamFailsMarksKey ==
    /\ pc = "await"
    /\ \E e \in IF supportsTool(sources[pos], toolName)
                 THEN UpstreamErrors ELSE {NotSupported} :
        LET s == sources[pos]
        IN  /\ lastError' = e
            /\ keys' = IF hasKeyManager(s)
                       THEN [keys EXCEPT
                               ![s] = markRateLimit(@, keyInfo, now, resetWindow)]
                       ELSE keys
            /\ SourceFails(e)
            /\ UNCHANGED <<currentIndexes, attempt>>
    /\ UNCHANGED <<now, resetWindow, lastCall, cbVars, customPriorities,
                   circuitBreakers, config, adapterVars, errorClass, market, retry, toolName, symbol, skipped,
                   deadlinePassed, sources, keyIndex, keyInfo, calls,
                   dispatches>>

(* fn() rejects with e (the executor's own error when the client lacks the *)
(* method of the tool, else an upstream error): on a rate-limit error of a *)
(* source with KeyManager the key is marked and rotated; any other error   *)
(* is rethrown                                                             *)
UpstreamFails ==
    /\ pc = "await"
    /\ \E e \in IF supportsTool(sources[pos], toolName)
                 THEN UpstreamErrors ELSE {NotSupported} :
        LET s == sources[pos]
        IN  /\ lastError' = e
            /\ IF hasKeyManager(s) /\ isRateLimitError(e)
               THEN LET marked == markRateLimit(keys[s], keyInfo, now, resetWindow)
                        r == rotateKey(marked, currentIndexes[s])
                    IN  /\ keys' = [keys EXCEPT ![s] = marked]
                        /\ IF r = Undefined
                           THEN /\ SourceFails(e)
                                /\ UNCHANGED <<currentIndexes, attempt>>
                           ELSE /\ currentIndexes' =
                                      [currentIndexes EXCEPT ![s] = r]
                                /\ attempt' = attempt + 1
                                /\ pc' = "rotate"
                                /\ UNCHANGED <<attempts, pos, result>>
               ELSE /\ SourceFails(e)
                    /\ UNCHANGED <<keys, currentIndexes, attempt>>
    /\ UNCHANGED <<now, resetWindow, lastCall, cbVars, customPriorities, circuitBreakers, config, adapterVars, errorClass, market, retry, toolName, symbol, skipped, deadlinePassed,
                   sources, keyIndex, keyInfo, calls, dispatches>>

(* the for loop over the sources has ended: the aggregate error is thrown *)
AllSourcesFailed ==
    /\ pc = "next"
    /\ pos > Len(sources)
    /\ result' = [kind |-> "aggregate", source |-> "",
                  error |-> AggregateError(attempts)]
    /\ pc' = "done"
    /\ UNCHANGED <<now, poolVars, cbVars, customPriorities, circuitBreakers, config, adapterVars, errorClass, market, retry, toolName, symbol, skipped, deadlinePassed, sources,
                   pos, attempts, keyIndex, attempt, keyInfo, lastError, calls,
                   dispatches>>

(* the dispatch has returned: its locals are gone, the client is ready for *)
(* the next call                                                           *)
FinishDispatch ==
    /\ pc = "done"
    /\ pc' = "idle"
    /\ toolName' = ""
    /\ symbol' = << >>
    /\ skipped' = << >>
    /\ deadlinePassed' = FALSE
    /\ sources' = << >>
    /\ pos' = 0
    /\ attempts' = << >>
    /\ keyIndex' = 0
    /\ attempt' = 0
    /\ keyInfo' = Undefined
    /\ lastError' = NoError
    /\ calls' = << >>
    /\ result' = NoResult
    /\ UNCHANGED <<now, poolVars, cbVars, customPriorities, circuitBreakers, config, adapterVars, errorClass, market, retry, dispatches>>

(* time passes while an upstream call is awaited and between dispatches *)
DispTick ==
    /\ \/ pc = "idle"
       \/ pc = "await" /\ supportsTool(sources[pos], toolName)
    /\ now < MaxTime
    /\ now' = now + 1
    /\ UNCHANGED <<poolVars, cbVars, dispVars>>

(* the key pools the server starts with: the number of keys each           *)
(* credential variable lists                                               *)
KeyCounts ==
    {c \in [KeyedSources -> 0..MaxKeys] :
        /\ c["twelvedata"] <= 1
        /\ c["alphavantage"] = 1
        /\ c["tiingo"] = 0}

DispInit ==
    /\ now = 0
    /\ \E c \in KeyCounts :
          keys = [s \in KeyedSources |-> initializeKeys(EnvValue(c[s]))]
    /\ currentIndexes = [s \in KeyedSources |-> 0]
    /\ resetWindow = MaxWindow
    /\ lastCall = NoCall
    /\ CBIdle
    /\ customPriorities \in {NoCustomPriorities, RepeatedCustomPriority}
    /\ circuitBreakers = << >>
    /\ config = DEFAULT_RESILIENCE_CONFIG
    /\ DispatchIdle
    /\ dispatches = 0

(* a client constructed with { apiFailoverEnabled: false }: the            *)
(* constructor merges the argument over DEFAULT_RESILIENCE_CONFIG          *)
FailoverOffInit ==
    /\ now = 0
    /\ \E c \in KeyCounts :
          keys = [s \in KeyedSources |-> initializeKeys(EnvValue(c[s]))]
    /\ currentIndexes = [s \in KeyedSources |-> 0]
    /\ resetWindow = MaxWindow
    /\ lastCall = NoCall
    /\ CBIdle
    /\ customPriorities \in {NoCustomPriorities, RepeatedCustomPriority}
    /\ circuitBreakers = << >>
    /\ config = [DEFAULT_RESILIENCE_CONFIG EXCEPT !.apiFailoverEnabled = FALSE]
    /\ DispatchIdle
    /\ dispatches = 0

Next ==
    \/ StartDispatch
    \/ SkipSource
    \/ EnterSource
    \/ AcquireKey
    \/ UpstreamSucceeds
    \/ UpstreamFails
    \/ AllSourcesFailed
    \/ FinishDispatch
    \/ DispTick

Spec == DispInit /\ [][Next]_vars

(* the caller's deadline (config.apiTimeoutMs after the call) comes while   *)
(* fn() is awaited: the await carries no timeout, nothing in the client    *)
(* listens, and the dispatch goes on as before                             *)
DeadlineExpires ==
    /\ pc = "await"
    /\ supportsTool(sources[pos], toolName)
    /\ ~deadlinePassed
    /\ deadlinePassed' = TRUE
    /\ UNCHANGED <<now, poolVars, cbVars, customPriorities, circuitBreakers,
                   config, adapterVars, errorClass, market, retry, pc, toolName, symbol, skipped, sources, pos,
                   attempts, keyIndex, attempt, keyInfo, lastError, calls,
                   result, dispatches>>

NextWithDeadline ==
    \/ Next
    \/ DeadlineExpires

(* the dispatcher called by a caller whose deadline can expire *)
SpecDeadline == DispInit /\ [][NextWithDeadline]_vars

FacadeNext ==
    \/ CallTool
    \/ SkipSource
    \/ EnterSource
    \/ AcquireKey
    \/ UpstreamSucceeds
    \/ UpstreamFails
    \/ AllSourcesFailed
    \/ FinishDispatch
    \/ DispTick

(* the server: tool calls arrive at the handler, which calls the client *)
SpecFacade == DispInit /\ [][FacadeNext]_vars

(* the dispatcher of a client whose configuration turns failover off *)
SpecFailoverOff == FailoverOffInit /\ [][Next]_vars

(***************************************************************************)
(* The KeyManager of one source driven through its public methods.         *)
(***************************************************************************)
PoolSource == "finnhub"

PoolInit ==
    /\ now = 0
    /\ \E n \in 1..MaxKeys :
          keys = [s \in KeyedSources |->
                     IF s = PoolSource THEN initializeKeys(EnvValue(n))
                     ELSE initializeKeys(EnvValue(0))]
    /\ currentIndexes = [s \in KeyedSources |-> 0]
    /\ resetWindow \in 1..MaxWindow
    /\ lastCall = NoCall
    /\ CBIdle
    /\ DispIdle

Tick ==
    /\ now < MaxTime
    /\ now' = now + 1
    /\ UNCHANGED <<poolVars, cbVars, dispVars>>

PoolGetNextKey ==
    LET r == getNextKey(keys[PoolSource], currentIndexes[PoolSource])
    IN  /\ currentIndexes' =
              IF r = Undefined THEN currentIndexes
              ELSE [currentIndexes EXCEPT ![PoolSource] = r]
        /\ lastCall' = Call("getNextKey", Undefined, r)
        /\ UNCHANGED <<now, keys, resetWindow, cbVars, dispVars>>

PoolMarkRateLimit ==
    \E i \in DOMAIN keys[PoolSource] :
        /\ keys' = [keys EXCEPT
                      ![PoolSource] = markRateLimit(@, i, now, resetWindow)]
        /\ lastCall' = Call("markRateLimit", i, Undefined)
        /\ UNCHANGED <<now, currentIndexes, resetWindow, cbVars, dispVars>>

PoolRecordUsage ==
    \E i \in DOMAIN keys[PoolSource] :
        /\ keys[PoolSource][i].usageCount < MaxUsage
        /\ keys' = [keys EXCEPT ![PoolSource] = recordUsage(@, i)]
        /\ currentIndexes' = [currentIndexes EXCEPT ![PoolSource] = i]
        /\ lastCall' = Call("recordUsage", i, Undefined)
        /\ UNCHANGED <<now, resetWindow, cbVars, dispVars>>

PoolResetCooldown ==
    \E i \in DOMAIN keys[PoolSource] :
        /\ keys' = [keys EXCEPT ![PoolSource] = resetCooldown(@, i)]
        /\ lastCall' = Call("resetCooldown", i, Undefined)
        /\ UNCHANGED <<now, currentIndexes, resetWindow, cbVars, dispVars>>

PoolHasAvailableKey ==
    /\ keys' = [keys EXCEPT ![PoolSource] = checkAndResetCooldowns(@, now)]
    /\ lastCall' = Call("hasAvailableKey", Undefined,
                        IF hasAvailableKey(keys[PoolSource], now) THEN 1 ELSE 0)
    /\ UNCHANGED <<now, currentIndexes, resetWindow, cbVars, dispVars>>

PoolRotateKey ==
    LET r == rotateKey(keys[PoolSource], currentIndexes[PoolSource])
    IN  /\ currentIndexes' =
              IF r = Undefined THEN currentIndexes
              ELSE [currentIndexes EXCEPT ![PoolSource] = r]
        /\ lastCall' = Call("rotateKey", Undefined, IF r = Undefined THEN 0 ELSE 1)
        /\ UNCHANGED <<now, keys, resetWindow, cbVars, dispVars>>

PoolNext ==
    \/ Tick
    \/ PoolGetNextKey
    \/ PoolMarkRateLimit
    \/ PoolRecordUsage
    \/ PoolResetCooldown
    \/ PoolHasAvailableKey
    \/ PoolRotateKey

SpecPool == PoolInit /\ [][PoolNext]_vars

(***************************************************************************)
(* One CircuitBreaker driven through its public methods.                   *)
(***************************************************************************)
PoolIdle ==
    /\ keys = [s \in KeyedSources |-> initializeKeys(EnvValue(0))]
    /\ currentIndexes = [s \in KeyedSources |-> 0]
    /\ resetWindow = 1
    /\ lastCall = NoCall

CBInit ==
    /\ now = 0
    /\ PoolIdle
    /\ DispIdle
    /\ \E e \in BOOLEAN, t \in 1..MaxThreshold, d \in 1..MaxTimeout :
          CBInitial([enabled |-> e, threshold |-> t, timeout |-> d])

CBNext ==
    \/ Tick
    \/ CBExecute
    \/ CBTestRecovery
    \/ CBCallSucceeds
    \/ CBCallFails
    \/ CBBypassReturns
    \/ CBPlainReturns
    \/ CBForceOpen
    \/ CBForceClose
    \/ CBReset

SpecCB == CBInit /\ [][CBNext]_vars

(***************************************************************************)
(* The SourceRouter called with a tool name and a symbol.                  *)
(***************************************************************************)
(* the map loaded from SOURCE_PRIORITY_GET_STOCK_QUOTE=eastmoney,sina *)
ChinaOnlyCustomPriority ==
    [NoCustomPriorities EXCEPT !["get_stock_quote"] = <<"eastmoney", "sina">>]

RouterCustomPriorities ==
    {NoCustomPriorities, RepeatedCustomPriority, ChinaOnlyCustomPriority}

(* the tools of the priority table and a tool it does not list *)
RouterTools == DOMAIN OPTIMAL_SOURCE_MAP \cup {"get_market_status"}

(* symbols of every market, written in the ways the classifier            *)
(* distinguishes; << >> is the absent symbol                               *)
RouterSymbols ==
    {<< >>, AAPL, ZIJIN,
     <<"a", "a", "p", "l">>,
     <<"0", "0", "0", "0", "0", "1", ".", "S", "Z">>,
     <<"4", "3", "0", "0", "4", "7", ".", "B", "J">>,
     <<"0", "7", "0", "0", ".", "H", "K">>,
     <<"s", "z", "0", "0", "0", "0", "0", "1">>,
     <<"6", "0", "0", "0", "0", "0">>,
     <<"0", "0", "7", "0", "0">>}

RouterInit ==
    /\ now = 0
    /\ PoolIdle
    /\ CBIdle
    /\ DispatchIdle
    /\ dispatches = 0
    /\ circuitBreakers = << >>
    /\ config = DEFAULT_RESILIENCE_CONFIG
    /\ customPriorities \in RouterCustomPriorities

(* sourceRouter.getSourcesForTool(tool, sym); the arguments and the result *)
(* are kept in toolName, symbol and sources                                *)
RouterGetSources ==
    /\ \E tool \in RouterTools, sym \in RouterSymbols :
          /\ toolName' = tool
          /\ symbol' = sym
          /\ sources' = getSourcesForTool(customPriorities, tool, sym)
    /\ UNCHANGED <<now, poolVars, cbVars, customPriorities, circuitBreakers,
                   config, adapterVars, errorClass, market, retry, pc, skipped, deadlinePassed, pos, attempts,
                   keyIndex, attempt, keyInfo, lastError, calls, result,
                   dispatches>>

RouterNext == RouterGetSources

SpecRouter == RouterInit /\ [][RouterNext]_vars

(***************************************************************************)
(* One SinaClient (or EastMoneyClient) called by concurrent tool calls.    *)
(***************************************************************************)
AdapterInit ==
    /\ now = 0
    /\ PoolIdle
    /\ CBIdle
    /\ DispIdle

(* time passes; a timer that is due fires before the clock moves on *)
AdapterTick ==
    /\ now < MaxTime
    /\ \A c \in Sleeping : callers[c].wake > now
    /\ now' = now + 1
    /\ UNCHANGED <<poolVars, cbVars, dispVars>>

AdapterNext ==
    \/ \E c \in Callers : AdapterRequest(c)
    \/ \E c \in Callers : AdapterWake(c)
    \/ \E c \in Callers : AdapterResponse(c)
    \/ AdapterTick

SpecAdapter == AdapterInit /\ [][AdapterNext]_vars

(***************************************************************************)
(* The error detection applied to the errors a call can be rejected with.  *)
(***************************************************************************)
ClassifierMarkers ==
    {"429", "rate limit", "timeout", "timed out", "500", "503", "network",
     "404"}

(* the values a call can throw: Errors whose message contains any of the   *)
(* markers, and a value that is not an Error                               *)
ClassifierErrors == {Err(m) : m \in SUBSET ClassifierMarkers} \cup {NoError}

ClassifierInit ==
    /\ now = 0
    /\ PoolIdle
    /\ CBIdle
    /\ DispIdle

(* an error is caught and classified *)
ClassifyError ==
    /\ \E e \in ClassifierErrors :
          /\ lastError' = e
          /\ errorClass' = classify(e)
    /\ UNCHANGED <<now, poolVars, cbVars, customPriorities, circuitBreakers,
                   config, adapterVars, market, retry, pc, toolName, symbol, skipped,
                   deadlinePassed, sources, pos, attempts, keyIndex, attempt,
                   keyInfo, calls, result, dispatches>>

ClassifierNext == ClassifyError

SpecClassifier == ClassifierInit /\ [][ClassifierNext]_vars

(***************************************************************************)
(* withRetry called under the configurations the environment can give.     *)
(***************************************************************************)
(* retryMaxAttempts as parseInt leaves it: a count, zero, a negative       *)
(* number or NaN                                                           *)
RetryMaxAttemptsChoices == {NaN} \cup (-1..MaxRetryAttempts)

RetryInit ==
    /\ now = 0
    /\ PoolIdle
    /\ CBIdle
    /\ customPriorities = NoCustomPriorities
    /\ circuitBreakers = << >>
    /\ config = DEFAULT_RESILIENCE_CONFIG
    /\ AdapterIdle
    /\ errorClass = ""
    /\ market = ""
    /\ \E e \in BOOLEAN, m \in RetryMaxAttemptsChoices :
          retry = RetryCall([retryEnabled |-> e, retryMaxAttempts |-> m])
    /\ pc = "idle"
    /\ toolName = ""
    /\ symbol = << >>
    /\ skipped = << >>
    /\ deadlinePassed = FALSE
    /\ sources = << >>
    /\ pos = 0
    /\ attempts = << >>
    /\ keyIndex = 0
    /\ attempt = 0
    /\ keyInfo = Undefined
    /\ lastError = NoError
    /\ calls = << >>
    /\ result = NoResult
    /\ dispatches = 0

RetryNext ==
    \/ RetryEnter
    \/ RetryLoopTest
    \/ RetryFnResolves
    \/ RetryFnRejects
    \/ RetryDelayEnds
    \/ RetryAgain

SpecRetry == RetryInit /\ [][RetryNext]_vars

(***************************************************************************)
(* The market classifier applied to symbols as they are routed.            *)
(***************************************************************************)
(* codes and tickers of every market *)
SymbolBodies ==
    {<<"6", "0", "1", "8", "9", "9">>,
     <<"0", "0", "0", "0", "0", "1">>,
     <<"4", "3", "0", "0", "4", "7">>,
     <<"0", "0", "7", "0", "0">>,
     <<"A", "A", "P", "L">>,
     <<"a", "a", "p", "l">>,
     <<"s", "h", "6", "0", "1", "8", "9", "9">>}

(* exchange suffixes in upper, lower and mixed case, and none *)
SymbolSuffixes ==
    {<< >>,
     <<".", "S", "H">>, <<".", "s", "h">>, <<".", "S", "s">>,
     <<".", "s", "Z">>, <<".", "B", "J">>, <<".", "h", "k">>,
     <<".", "U", "S">>, <<".", "n">>, <<".", "O">>}

(* nothing, or one blank *)
Paddings == {<< >>, <<" ">>}

(* the symbols classified: a body with a suffix, with or without a blank   *)
(* before or after                                                         *)
MarketSymbols ==
    {lead \o body \o suffix \o trail :
        lead \in Paddings, body \in SymbolBodies,
        suffix \in SymbolSuffixes, trail \in Paddings}

MarketInit ==
    /\ now = 0
    /\ PoolIdle
    /\ CBIdle
    /\ DispIdle

(* getMarketFromSymbol(sym) is called; the argument and the result are     *)
(* kept in symbol and market                                               *)
ClassifySymbol ==
    /\ \E sym \in MarketSymbols :
          /\ symbol' = sym
          /\ market' = getMarketFromSymbol(sym)
    /\ UNCHANGED <<now, poolVars, cbVars, customPriorities, circuitBreakers,
                   config, adapterVars, errorClass, retry, pc, toolName, skipped,
                   deadlinePassed, sources, pos, attempts, keyIndex, attempt,
                   keyInfo, lastError, calls, result, dispatches>>

MarketNext == ClassifySymbol

SpecMarket == MarketInit /\ [][MarketNext]_vars

(***************************************************************************)
(* Properties of the dispatcher.                                           *)
(***************************************************************************)
AttemptSources == [i \in 1..Len(attempts) |-> attempts[i].source]

CallSources == [i \in 1..Len(calls) |-> calls[i].source]

(* the candidates the for loop has reached *)
Visited == SubSeq(sources, 1, IF pos <= Len(sources) THEN pos ELSE Len(sources))

(* a is b with some entries left out *)
RECURSIVE IsSubsequence(_, _)
IsSubsequence(a, b) ==
    IF a = << >> THEN TRUE
    ELSE IF b = << >> THEN FALSE
    ELSE IF Head(a) = Head(b) THEN IsSubsequence(Tail(a), Tail(b))
    ELSE IsSubsequence(a, Tail(b))

(* the requests c go through the candidates r in order, possibly several   *)
(* requests to one candidate                                               *)
RECURSIVE InRouterOrder(_, _)
InRouterOrder(c, r) ==
    IF c = << >> THEN TRUE
    ELSE IF r = << >> THEN FALSE
    ELSE IF Head(c) = Head(r) THEN InRouterOrder(Tail(c), r)
    ELSE InRouterOrder(c, Tail(r))

Successes == {i \in 1..Len(attempts) : attempts[i].success}

(* the classification PERMANENT: an error that is neither a rate-limit     *)
(* error nor a transient (5xx, timeout, network) error                     *)
IsPermanent(e) == e.instance /\ ~isRateLimitError(e) /\ ~isTransientError(e)

(* the cooldown of key k is running at time t *)
Cooling(k, t) == k.inCooldown /\ k.cooldownUntil # Undefined /\ t < k.cooldownUntil

(***************************************************************************)
(* C1: the requests of a dispatch go through the candidates in the order   *)
(* the router returned them, never past the candidate the loop has         *)
(* reached; a dispatch that returned a record stopped there: the last      *)
(* request went to the winning provider, whose attempt is the last entry   *)
(* of attempts and the only one with success = true.                       *)
(***************************************************************************)
C1_RouterOrderStopAtFirstSuccess ==
    /\ InRouterOrder(CallSources, Visited)
    /\ Successes \subseteq {Len(attempts)}
    /\ Successes # {} <=> result.kind = "ok"
    /\ result.kind = "ok" =>
          /\ pc = "done"
          /\ calls # << >>
          /\ calls[Len(calls)].source = result.source
          /\ attempts[Len(attempts)].source = result.source
          /\ sources[pos] = result.source

C1_Witness ==
    /\ result.kind = "ok"
    /\ Len(attempts) >= 2
    /\ pos < Len(sources)
    /\ isSourceAvailable(sources[pos + 1])

(***************************************************************************)
(* C2: a failed attempt whose error is classified PERMANENT is the last    *)
(* attempt of its dispatch: the dispatch ends there by throwing that       *)
(* error, and no later candidate is contacted.                             *)
(***************************************************************************)
C2_PermanentAbortsCascade ==
    \A i \in 1..Len(attempts) :
        (~attempts[i].success /\ IsPermanent(attempts[i].error)) =>
            /\ i = Len(attempts)
            /\ pc = "done"
            /\ result.kind = "thrown"
            /\ result.error = attempts[i].error

(***************************************************************************)
(* C3: when the dispatcher leaves a provider that has a key pool after a   *)
(* rate-limit error, no key of that provider is available: the cooldown of *)
(* every key of the pool is running.                                       *)
(***************************************************************************)
C3_LeavesOnlyWhenNoKeyAvailable ==
    (pc = "next" /\ attempts # << >>) =>
        LET a == attempts[Len(attempts)]
        IN  (~a.success /\ isRateLimitError(a.error) /\ hasKeyManager(a.source)) =>
                \A i \in DOMAIN keys[a.source] : Cooling(keys[a.source][i], now)

(***************************************************************************)
(* C4: every key tried within a provider appears as its own attempt        *)
(* record: a finished dispatch has, for each provider with a key pool it   *)
(* sent requests to, one attempt per request, with the index of the key    *)
(* acquired for it; with two keys, the first rate-limited and the second   *)
(* succeeding, that is key_index 0 (failed) then key_index 1 (success).    *)
(***************************************************************************)
C4_OneAttemptPerKeyTried ==
    pc = "done" =>
        \A s \in KeyedSources :
            LET requests == SelectSeq(calls, LAMBDA c : c.source = s)
                recorded == SelectSeq(attempts, LAMBDA a : a.source = s)
            IN  requests # << >> =>
                    /\ Len(recorded) = Len(requests)
                    /\ \A i \in 1..Len(requests) :
                          recorded[i].keyIndex = requests[i].acquired

C6_RequestCarriesAcquiredKey ==
    \A i \in 1..Len(calls) :
        hasKeyManager(calls[i].source) =>
            calls[i].credential = keys[calls[i].source][calls[i].acquired].key

(***************************************************************************)
(* Properties of the key pool.                                             *)
(***************************************************************************)
Pool == keys[PoolSource]

(* every key of the pool was rate-limited less than a reset window before  *)
(* time t, and its cooldown was not reset since                            *)
AllRateLimitedInWindow(t) ==
    \A i \in DOMAIN Pool :
        Pool[i].cooldownUntil # Undefined /\ t < Pool[i].cooldownUntil

(* the cooldown of some key of the pool had expired by time t *)
SomeCooldownExpired(t) ==
    \E i \in DOMAIN Pool :
        Pool[i].cooldownUntil # Undefined /\ t >= Pool[i].cooldownUntil

(***************************************************************************)
(* C7: while every key of a pool has been rate-limited within the reset    *)
(* window, getNextKey returns no key and hasAvailableKey (by which the     *)
(* dispatcher decides to skip the provider) returns false.                 *)
(***************************************************************************)
C7_NoKeyWhileAllRateLimited ==
    AllRateLimitedInWindow(lastCall.at) =>
        /\ lastCall.op = "getNextKey" => lastCall.result = Undefined
        /\ lastCall.op = "hasAvailableKey" => lastCall.result = 0

C7_Witness ==
    /\ getTotalKeyCount(Pool) = MaxKeys
    /\ AllRateLimitedInWindow(lastCall.at)
    /\ lastCall.op = "getNextKey"
    /\ lastCall.result = Undefined
    /\ lastCall.at > 0

(***************************************************************************)
(* C8: once the cooldown of some key has expired, getNextKey returns a key *)
(* (it clears the expired cooldowns itself).                               *)
(***************************************************************************)
C8_AcquireAfterExpiry ==
    (lastCall.op = "getNextKey" /\ SomeCooldownExpired(lastCall.at)) =>
        lastCall.result # Undefined

(***************************************************************************)
(* C9: when a call on the pool has completed, every key has in_cooldown    *)
(* exactly when its cooldown_until lies in the future.                     *)
(***************************************************************************)
C9_CooldownFlagMatchesTime ==
    (lastCall.op # "none" /\ lastCall.at = now) =>
        \A i \in DOMAIN Pool :
            Pool[i].inCooldown <=>
                (Pool[i].cooldownUntil # Undefined /\ Pool[i].cooldownUntil > now)

(***************************************************************************)
(* C10 (as stated): from closed with failure_count 0, the breaker is still *)
(* closed after fewer than threshold consecutive failed execute() calls    *)
(* and open after the threshold-th.                                        *)
(***************************************************************************)
C10_AsStated ==
    streak # Undefined =>
        /\ (streak < cbConfig.threshold => circuitState = "closed")
        /\ (streak >= cbConfig.threshold => circuitState = "open")

(***************************************************************************)
(* C10 (amended): for every breaker with circuitBreakerEnabled set, from   *)
(* closed with failure_count 0 the breaker is still closed after fewer     *)
(* than threshold consecutive failed execute() calls and open after the    *)
(* threshold-th.                                                           *)
(***************************************************************************)
C10_OpensAtThreshold ==
    (cbConfig.enabled /\ streak # Undefined) =>
        /\ failureCount = streak
        /\ (streak < cbConfig.threshold => circuitState = "closed")
        /\ (streak >= cbConfig.threshold => circuitState = "open")

C10_Witness ==
    /\ cbConfig.enabled
    /\ cbConfig.threshold = MaxThreshold
    /\ streak = cbConfig.threshold
    /\ cbLast = "failure"
    /\ circuitState = "open"

(***************************************************************************)
(* Properties of the circuit breaker.  cbPrev holds the fields the last    *)
(* event found, cbLast what the event was.                                 *)
(***************************************************************************)
Outcomes == {"counted", "trial", "bypass", "plain"}

Entries == {"execute", "testRecovery"}

(* the event recorded in cbPrev was a call attempt on an open circuit *)
AttemptOnOpen == cbPrev.op \in Entries /\ cbPrev.state = "open"

(* the time since the last failure at that attempt *)
ElapsedAtAttempt == cbPrev.at - cbPrev.lastFailure

(* the attempt was rejected and changed nothing: no call was started *)
RejectedUnchanged ==
    /\ cbLast = "CIRCUIT_OPEN"
    /\ InFlightTotal = cbPrev.inFlight
    /\ circuitState = "open"
    /\ failureCount = cbPrev.count
    /\ lastFailureTime = cbPrev.lastFailure

(***************************************************************************)
(* C11: when a wrapped call (of an enabled breaker) has succeeded while    *)
(* the breaker was closed or half-open, failureCount is 0 and the breaker  *)
(* is closed.                                                              *)
(***************************************************************************)
C11_SuccessClosesAndResets ==
    (/\ cbConfig.enabled
     /\ cbPrev.op \in Outcomes
     /\ cbLast = "success"
     /\ cbPrev.state \in {"closed", "half-open"}) =>
        /\ failureCount = 0
        /\ circuitState = "closed"

(***************************************************************************)
(* C12: in every reachable state of the breaker, closed implies            *)
(* failureCount < threshold.                                               *)
(***************************************************************************)
C12_ClosedBelowThreshold ==
    circuitState = "closed" => failureCount < cbConfig.threshold

C12_Witness ==
    /\ circuitState = "closed"
    /\ cbPrev.op = "forceClose"
    /\ cbPrev.state = "open"
    /\ cbPrev.count >= cbConfig.threshold
    /\ inFlight.counted > 0

(***************************************************************************)
(* C13: a call attempted (on an enabled breaker) on an open circuit once   *)
(* the timeout has elapsed since the last failure moves the breaker to     *)
(* half-open and is let through as a trial call.                           *)
(***************************************************************************)
C13_TrialAfterTimeout ==
    (/\ cbConfig.enabled
     /\ AttemptOnOpen
     /\ ElapsedAtAttempt >= cbConfig.timeout) =>
        /\ cbLast = "trial"
        /\ circuitState = "half-open"
        /\ InFlightTotal = cbPrev.inFlight + 1

(***************************************************************************)
(* C14 (as stated): a call attempted on an open circuit before the timeout *)
(* has elapsed is rejected with CIRCUIT_OPEN, the wrapped function is not  *)
(* invoked, and state, failureCount and lastFailureTime are unchanged.     *)
(***************************************************************************)
C14_AsStated ==
    (AttemptOnOpen /\ ElapsedAtAttempt < cbConfig.timeout) => RejectedUnchanged

(***************************************************************************)
(* C14 (amended): a call attempted through execute on a breaker with       *)
(* circuitBreakerEnabled set, or through testRecovery on any breaker, on   *)
(* an open circuit before the timeout has elapsed is rejected with         *)
(* CIRCUIT_OPEN, the wrapped function is not invoked, and state,           *)
(* failureCount and lastFailureTime are unchanged.                         *)
(***************************************************************************)
C14_RejectedWhileOpen ==
    (/\ AttemptOnOpen
     /\ ElapsedAtAttempt < cbConfig.timeout
     /\ cbConfig.enabled \/ cbPrev.op = "testRecovery") => RejectedUnchanged

C14_Witness ==
    /\ AttemptOnOpen
    /\ cbPrev.op = "execute"
    /\ cbConfig.enabled
    /\ ElapsedAtAttempt < cbConfig.timeout
    /\ ElapsedAtAttempt > 0
    /\ cbPrev.count >= cbConfig.threshold
    /\ cbLast = "CIRCUIT_OPEN"

(***************************************************************************)
(* C15: when the trial call has failed while the breaker was half-open,    *)
(* the breaker is open and lastFailureTime is the time of that failure.    *)
(***************************************************************************)
C15_TrialFailureReopens ==
    (cbPrev.op = "trial" /\ cbLast = "failure" /\ cbPrev.state = "half-open") =>
        /\ circuitState = "open"
        /\ lastFailureTime = cbPrev.at

(***************************************************************************)
(* Properties of the dispatcher and its circuit breakers.                  *)
(***************************************************************************)
FailedAttempts(s) ==
    {i \in 1..Len(attempts) : attempts[i].source = s /\ ~attempts[i].success}

(***************************************************************************)
(* C16: in the first dispatch, every provider with a failed attempt has a  *)
(* circuit breaker in circuitBreakers whose failureCount is the number of  *)
(* failed attempts on it (one failed provider: 1; two: 1 each).            *)
(***************************************************************************)
C16_FailedAttemptCountsOnBreaker ==
    dispatches = 1 =>
        \A s \in Sources :
            FailedAttempts(s) # {} =>
                /\ s \in DOMAIN circuitBreakers
                /\ circuitBreakers[s].failureCount = Cardinality(FailedAttempts(s))

(***************************************************************************)
(* Properties of the router.                                               *)
(***************************************************************************)
Routed == toolName # ""

(* a custom priority is configured for the tool *)
HasCustomPriority ==
    toolName \in DOMAIN customPriorities /\ customPriorities[toolName] # << >>

(* the priority list of the tool: custom if configured, else default, else *)
(* finnhub alone                                                           *)
PriorityList ==
    IF HasCustomPriority THEN customPriorities[toolName]
    ELSE IF toolName \in DOMAIN OPTIMAL_SOURCE_MAP THEN OPTIMAL_SOURCE_MAP[toolName]
    ELSE <<"finnhub">>

(* the coverage list of the market of the symbol *)
Coverage == MARKET_SOURCE_FILTER[getMarketFromSymbol(symbol)]

(* the positions of the priority list whose provider covers the market *)
Covered == {i \in 1..Len(PriorityList) : \E j \in 1..Len(Coverage) :
                                             Coverage[j] = PriorityList[i]}

(***************************************************************************)
(* C18: every provider the router returns for a tool that has an executor  *)
(* and a symbol (a) supports the tool and (b) is in the coverage list of   *)
(* the symbol's market.                                                    *)
(***************************************************************************)
C18_RouteSupportsToolAndMarket ==
    (Routed /\ symbol # << >> /\ toolName \in DOMAIN ExecutorMethods) =>
        \A i \in 1..Len(sources) :
            /\ supportsTool(sources[i], toolName)
            /\ \E j \in 1..Len(Coverage) : Coverage[j] = sources[i]

(***************************************************************************)
(* C19: with a symbol given, the result is the priority list restricted to *)
(* the providers covering the symbol's market, in the order of the         *)
(* priority list; when no provider of the priority list covers the market, *)
(* it is the coverage list of the market.                                  *)
(***************************************************************************)
C19_PriorityRestrictedToMarket ==
    (Routed /\ symbol # << >>) =>
        IF Covered # {}
        THEN /\ IsSubsequence(sources, PriorityList)
             /\ Len(sources) = Cardinality(Covered)
             /\ \A i \in 1..Len(sources) :
                   \E j \in 1..Len(Coverage) : Coverage[j] = sources[i]
        ELSE sources = Coverage

C19_Witness ==
    /\ Routed
    /\ symbol # << >>
    /\ HasCustomPriority
    /\ Covered # {}
    /\ Len(sources) < Len(PriorityList)
    /\ sources # Coverage

(* the symbols explored that the classifier puts in a mainland market *)
ChineseSymbols ==
    {sym \in RouterSymbols \ {<< >>} :
        getMarketFromSymbol(sym) \in {"SH", "SZ", "BJ"}}

(* a get_stock_quote dispatch for such a symbol, no custom priority set *)
ChineseQuoteDispatch ==
    /\ customPriorities = NoCustomPriorities
    /\ toolName = "get_stock_quote"
    /\ symbol # << >>
    /\ getMarketFromSymbol(symbol) \in {"SH", "SZ", "BJ"}

(***************************************************************************)
(* C20: with no custom priority, the quote route of every symbol           *)
(* classified SH, SZ or BJ is sina then eastmoney, and a get_stock_quote   *)
(* dispatch for such a symbol attempts sina first and sends no request to  *)
(* a provider that requires a key, whatever keys are configured.           *)
(***************************************************************************)
C20_ChineseQuoteStaysOnKeylessSources ==
    /\ \A sym \in ChineseSymbols :
          getSourcesForTool(NoCustomPriorities, "get_stock_quote", sym)
              = <<"sina", "eastmoney">>
    /\ ChineseQuoteDispatch =>
          /\ sources = <<"sina", "eastmoney">>
          /\ \A i \in 1..Len(calls) : calls[i].source \notin KeyedSources
          /\ calls # << >> => calls[1].source = "sina"
          /\ attempts # << >> => attempts[1].source = "sina"

C20_Witness ==
    /\ customPriorities = NoCustomPriorities
    /\ toolName = "get_stock_quote"
    /\ symbol = ZIJIN
    /\ getTotalKeyCount(keys["finnhub"]) = MaxKeys
    /\ pc = "done"
    /\ Len(attempts) = 2
    /\ ~attempts[1].success
    /\ attempts[2].success
    /\ attempts[2].source = "eastmoney"

(* attempt i was made on a provider whose client lacks the method of the   *)
(* tool                                                                    *)
Unsupported(i) == ~supportsTool(attempts[i].source, toolName)

(***************************************************************************)
(* C21: a provider that does not implement the requested operation never   *)
(* ends the cascade: its attempt fails with the executor's "does not       *)
(* support" error without any request being sent to it, the dispatch does  *)
(* not rethrow that error, and the loop goes on, so that the dispatch ends *)
(* only by the success of a candidate or after the last candidate.         *)
(***************************************************************************)
C21_UnsupportedProviderDoesNotEndCascade ==
    \A i \in 1..Len(attempts) :
        Unsupported(i) =>
            /\ ~attempts[i].success
            /\ attempts[i].error = NotSupported
            /\ \A j \in 1..Len(calls) : calls[j].source # attempts[i].source
            /\ result.kind # "thrown"
            /\ pc = "done" =>
                  \/ result.kind = "ok"
                  \/ result.kind = "aggregate" /\ pos > Len(sources)

C21_Witness ==
    /\ Len(attempts) = 2
    /\ Unsupported(1)
    /\ attempts[2].source # attempts[1].source
    /\ pc = "done"

(* the error is of a class the cascade is documented to retry *)
Retryable(e) == isRateLimitError(e) \/ isTransientError(e)

(* every candidate the loop entered failed with a retryable error *)
AllFailedRetryable ==
    /\ attempts # << >>
    /\ \A i \in 1..Len(attempts) :
          ~attempts[i].success /\ Retryable(attempts[i].error)

(* the candidates the loop entered, in the order of the route *)
Tried ==
    LET idx == SelectSeq([i \in 1..Len(sources) |-> i],
                         LAMBDA i : i \notin Range(skipped))
    IN  [k \in 1..Len(idx) |-> sources[idx[k]]]

(***************************************************************************)
(* C22: when every candidate tried failed with a retryable error, the      *)
(* dispatch ends with one aggregate error: its message contains the        *)
(* message of every failed attempt, and it carries the whole attempts log, *)
(* which has one failed attempt per candidate tried, in the order tried.   *)
(***************************************************************************)
C22_AggregateErrorCarriesAttempts ==
    (pc = "done" /\ AllFailedRetryable) =>
        /\ result.kind = "aggregate"
        /\ \A i \in 1..Len(attempts) :
              attempts[i].error.message \subseteq result.error.message
        /\ result.error.attempts = attempts
        /\ AttemptSources = Tried

C22_Witness ==
    /\ pc = "done"
    /\ AllFailedRetryable
    /\ Len(attempts) = 2
    /\ attempts[1].error # attempts[2].error
    /\ skipped # << >>

(* the for loop passed over every candidate *)
AllSkipped == toolName # "" /\ Len(skipped) = Len(sources)

(***************************************************************************)
(* C23: when every candidate is skipped as unavailable, no executor is     *)
(* invoked and no request sent, the attempts log stays empty, and the      *)
(* dispatch fails with an error whose message names the tool.  (The router *)
(* never returns an empty candidate list.)                                 *)
(***************************************************************************)
C23_AllSkippedFailsNamingTool ==
    /\ toolName # "" => sources # << >>
    /\ AllSkipped =>
          /\ attempts = << >>
          /\ calls = << >>
          /\ pc \in {"next", "done"}
          /\ pc = "done" =>
                /\ result.kind = "aggregate"
                /\ toolName \in result.error.message
                /\ result.error.attempts = << >>

C23_Witness ==
    /\ AllSkipped
    /\ pc = "done"
    /\ result.kind = "aggregate"

(* failover is turned off in the configuration of the client *)
FailoverOff == ~config.apiFailoverEnabled

(***************************************************************************)
(* C24: when failover is disabled a dispatch uses only the first candidate *)
(* (the first one it does not skip as unavailable): the dispatch is over   *)
(* with the first attempt, every request goes to one provider, and if the  *)
(* candidate fails its error is the outcome.                               *)
(***************************************************************************)
C24_FailoverOffUsesFirstCandidateOnly ==
    (FailoverOff /\ toolName # "") =>
        /\ Len(attempts) <= 1
        /\ attempts # << >> => pc = "done"
        /\ \A i, j \in 1..Len(calls) : calls[i].source = calls[j].source
        /\ (pc = "done" /\ attempts # << >> /\ ~attempts[1].success) =>
              result.error = attempts[1].error

(* the error is classified as a timeout or another transient failure, and  *)
(* not as a rate limit                                                     *)
IsTransientFailure(e) == ~isRateLimitError(e) /\ isTransientError(e)

(* the step appends a failed attempt whose error is transient *)
TransientAttemptRecorded ==
    /\ pc = "await"
    /\ Len(attempts') = Len(attempts) + 1
    /\ ~attempts'[Len(attempts')].success
    /\ IsTransientFailure(attempts'[Len(attempts')].error)

C26_DeadlineEndsCascade ==
    deadlinePassed =>
        \/ pc = "await"
        \/ /\ pc = "done"
           /\ result.kind = "aggregate"
           /\ attempts # << >>
           /\ ~attempts[Len(attempts)].success
           /\ isTimeoutError(attempts[Len(attempts)].error)

(* the providers that need no credential *)
KeylessSources == {"sina", "eastmoney"}

(***************************************************************************)
(* C27: sina and eastmoney are always available: they have a client and no *)
(* key pool, so no key of theirs can be in cooldown; the availability test *)
(* passes for them in every state, whatever errors (rate-limit errors      *)
(* included) they returned, and no dispatch skips them.                    *)
(***************************************************************************)
C27_KeylessSourcesAlwaysAvailable ==
    /\ \A s \in KeylessSources :
          /\ getClientForSource(s)
          /\ ~hasKeyManager(s)
          /\ s \notin DOMAIN keys
          /\ isSourceAvailable(s)
    /\ \A i \in Range(skipped) : sources[i] \notin KeylessSources

C27_Witness ==
    /\ dispatches = 2
    /\ pc = "await"
    /\ Len(attempts) = 1
    /\ attempts[1].source = "sina"
    /\ isRateLimitError(attempts[1].error)
    /\ sources[pos] = "eastmoney"
    /\ skipped = << >>

(***************************************************************************)
(* C28: any two upstream requests of one adapter instance start at least   *)
(* requestIntervalMs apart, concurrent calls included: every request       *)
(* starts at least one interval after the request started before it.       *)
(***************************************************************************)
C28_RequestsSpacedByInterval ==
    \A i \in 1..(Len(requestTimes) - 1) :
        requestTimes[i + 1] - requestTimes[i] >= requestIntervalMs

(***************************************************************************)
(* C29: a tool call whose symbol is missing or empty is rejected before    *)
(* the dispatcher is called and reaches no provider: while the symbol of   *)
(* the call is absent no candidate list exists, no attempt is made and no  *)
(* request is sent.                                                        *)
(***************************************************************************)
C29_MissingSymbolReachesNoProvider ==
    symbol = << >> =>
        /\ attempts = << >>
        /\ calls = << >>

(* the message is a pure timeout message: it contains a timeout marker and *)
(* no other marker                                                         *)
PureTimeout(e) ==
    e.instance /\ e.message # {} /\ e.message \subseteq {"timeout", "timed out"}

SuffixMarket ==
    [SH |-> {<<".", "S", "H">>, <<".", "S", "S">>},
     SZ |-> {<<".", "S", "Z">>},
     BJ |-> {<<".", "B", "J">>},
     HK |-> {<<".", "H", "K">>},
     US |-> {<<".", "U", "S">>, <<".", "N">>, <<".", "O">>}]

(* str ends with suffix, letter case ignored *)
EndsWithIgnoringCase(str, suffix) ==
    /\ Len(str) >= Len(suffix)
    /\ \A i \in 1..Len(suffix) :
          toUpperChar(str[Len(str) - Len(suffix) + i]) = toUpperChar(suffix[i])

(* the symbol begins or ends with a blank *)
Padded(str) == str # << >> /\ (str[1] = " " \/ str[Len(str)] = " ")

(* the suffix rules decide, in any letter case, also for a code whose      *)
(* digits name another market                                              *)
SuffixRuleWins ==
    \A m \in DOMAIN SuffixMarket : \A suffix \in SuffixMarket[m] :
        EndsWithIgnoringCase(symbol, suffix) => market = m

(***************************************************************************)
(* C31: the market classifier matches suffixes case-insensitively, lets    *)
(* the suffix rule win over the digit-prefix rule, and does not trim: a    *)
(* symbol with a leading or trailing blank is classified UNKNOWN.          *)
(***************************************************************************)
C31_SuffixWinsAndBlankIsUnknown ==
    market # "" =>
        /\ SuffixRuleWins
        /\ Padded(symbol) => market = "UNKNOWN"

(* withRetry runs with retry enabled and a count of attempts m >= 1 *)
RetryCounted ==
    /\ retry.config.retryEnabled
    /\ retry.config.retryMaxAttempts # NaN
    /\ retry.config.retryMaxAttempts >= 1

(* C32: with retry enabled and retryMaxAttempts = m >= 1, withRetry calls  *)
(* fn at most m times and ends in one of three ways: with the result of    *)
(* the first call that succeeded, with a non-retryable error rethrown      *)
(* right after the call that raised it, or, after m retryable failures,    *)
(* with a RetryError whose cause is the last error; with retry disabled fn *)
(* is called exactly once.                                                 *)
C32_RetryBoundedByMaxAttempts ==
    /\ RetryCounted =>
          /\ retry.invoked <= retry.config.retryMaxAttempts
          /\ retry.pc \in {"call", "delay", "done"} =>
                retry.invoked = retry.attempt + 1
          /\ retry.pc = "done" =>
                /\ retry.outcome.kind \in {"ok", "rethrown", "RetryError"}
                /\ retry.outcome.kind = "rethrown" =>
                      ~isRetryableError(retry.outcome.cause)
                /\ retry.outcome.kind = "RetryError" =>
                      /\ retry.invoked = retry.config.retryMaxAttempts
                      /\ isRetryableError(retry.outcome.cause)
          /\ retry.pc = "delay" =>
                retry.invoked < retry.config.retryMaxAttempts
    /\ ~retry.config.retryEnabled =>
          /\ retry.invoked <= 1
          /\ retry.pc \in {"plain", "done"} => retry.invoked = 1

(* every attempt of a call with the largest count failed with a retryable  *)
(* error                                                                   *)
C32_Witness ==
    /\ RetryCounted
    /\ retry.config.retryMaxAttempts = MaxRetryAttempts
    /\ retry.pc = "done"
    /\ retry.outcome.kind = "RetryError"
    /\ retry.invoked = MaxRetryAttempts

(* C39: whenever retry is enabled, whatever retryMaxAttempts is, a         *)
(* finished withRetry has called fn at least once and has not thrown its   *)
(* "Retry logic failed - should not reach here" error.                     *)
C39_RetryAlwaysCallsOnce ==
    (retry.config.retryEnabled /\ retry.pc = "done") =>
        /\ retry.invoked >= 1
        /\ retry.outcome.kind # "unreachable"

(* the reset window of key i, started by its last markRateLimit, is running *)
InResetWindow(ks, i, t) ==
    ks[i].cooldownUntil # Undefined /\ t < ks[i].cooldownUntil

(* the step is resetCooldown(i) *)
ExplicitReset(i) ==
    now' = now /\ lastCall'.op = "resetCooldown" /\ lastCall'.arg = i

(* the step is markRateLimit(i) *)
MarkedRateLimited(i) ==
    now' = now /\ lastCall'.op = "markRateLimit" /\ lastCall'.arg = i

(* C33: markRateLimit(i) at time T puts key i, and no other key, in        *)
(* cooldown until T + resetWindow; until then the key stays in cooldown    *)
(* unless resetCooldown(i) is called, and getNextKey does not return it.   *)
C33_RateLimitedKeyNotAcquiredInWindow ==
    /\ [](lastCall.op = "getNextKey" /\ lastCall.result # Undefined =>
            /\ ~InResetWindow(Pool, lastCall.result, lastCall.at)
            /\ ~Pool[lastCall.result].inCooldown)
    /\ [][\A i \in DOMAIN Pool :
            /\ MarkedRateLimited(i) =>
                  /\ keys'[PoolSource][i].inCooldown
                  /\ keys'[PoolSource][i].cooldownUntil = now + resetWindow
                  /\ \A j \in DOMAIN Pool \ {i} :
                        keys'[PoolSource][j] = Pool[j]
            /\ (InResetWindow(Pool, i, now) /\ Pool[i].inCooldown
                    /\ ~ExplicitReset(i)) =>
                  /\ keys'[PoolSource][i].inCooldown
                  /\ keys'[PoolSource][i].cooldownUntil >= Pool[i].cooldownUntil]_vars

(* getNextKey passes over the current key, whose window is running, and    *)
(* returns the other one                                                   *)
C33_Witness ==
    /\ getTotalKeyCount(Pool) = 2
    /\ lastCall.op = "getNextKey"
    /\ lastCall.result = 1
    /\ lastCall.at > 0
    /\ Pool[0].inCooldown
    /\ InResetWindow(Pool, 0, lastCall.at)

(* the step is a call of rotateKey *)
Rotated == now' = now /\ lastCall'.op = "rotateKey"

(* C34: rotateKey returns true exactly when some key of the pool is not in *)
(* cooldown; when it returns true the current index designates a key that  *)
(* is not in cooldown, and when it returns false the current index is      *)
(* unchanged.                                                              *)
C34_RotateTrueIffKeyAvailable ==
    /\ [](lastCall.op = "rotateKey" =>
            /\ lastCall.result = 1 <=> getAvailableKeyCount(Pool) > 0
            /\ lastCall.result = 1 =>
                  ~Pool[currentIndexes[PoolSource]].inCooldown)
    /\ [][(Rotated /\ lastCall'.result = 0) =>
                currentIndexes' = currentIndexes]_vars

(* the parts of C34 that do not depend on the size of the pool: a rotation *)
(* that returns true leaves the current index on a key that is not in      *)
(* cooldown, a pool of several keys rotates exactly when one of them is    *)
(* not in cooldown, and a rotation that returns false leaves the current   *)
(* index alone                                                             *)
RotateWithSeveralKeys ==
    /\ [](lastCall.op = "rotateKey" =>
            /\ getTotalKeyCount(Pool) > 1 =>
                  (lastCall.result = 1 <=> getAvailableKeyCount(Pool) > 0)
            /\ lastCall.result = 1 =>
                  ~Pool[currentIndexes[PoolSource]].inCooldown)
    /\ [][(Rotated /\ lastCall'.result = 0) =>
                currentIndexes' = currentIndexes]_vars

(* the reset window of some key of source s has elapsed and the key is     *)
(* still flagged                                                           *)
WindowElapsed(s) ==
    \E i \in DOMAIN keys[s] :
        /\ keys[s][i].inCooldown
        /\ keys[s][i].cooldownUntil # Undefined
        /\ now >= keys[s][i].cooldownUntil

(* the for loop of the dispatch is at a source with a KeyManager *)
AtKeyedSource ==
    pc = "next" /\ pos <= Len(sources) /\ hasKeyManager(sources[pos])

(* C35: a dispatch that comes to a provider after the reset window of one  *)
(* of its keys has elapsed does not skip it, whatever happened to the      *)
(* provider before: it enters the provider, a key is acquired and the      *)
(* provider is called.                                                     *)
C35_ElapsedCooldownRestoresSource ==
    [][/\ (AtKeyedSource /\ WindowElapsed(sources[pos])) =>
            /\ pc' = "rotate"
            /\ pos' = pos
            /\ skipped' = skipped
            /\ getNextKey(keys'[sources[pos]],
                          currentIndexes'[sources[pos]]) # Undefined
       /\ (pc = "rotate" /\ attempt = 0) =>
            /\ pc' = "await"
            /\ Len(calls') = Len(calls) + 1
            /\ calls'[Len(calls')].source = sources[pos]]_vars

(* the second dispatch calls a provider with key 0, whose window has       *)
(* elapsed, while key 1 is still cooling: the first dispatch left the      *)
(* provider with both keys in cooldown and no call of it ever succeeded    *)
C35_Witness ==
    /\ dispatches = 2
    /\ pc = "await"
    /\ hasKeyManager(sources[pos])
    /\ getTotalKeyCount(keys[sources[pos]]) = 2
    /\ attempt = 0
    /\ keyInfo = 0
    /\ ~keys[sources[pos]][0].inCooldown
    /\ keys[sources[pos]][1].inCooldown
    /\ \A i \in DOMAIN keys[sources[pos]] : keys[sources[pos]][i].usageCount = 0

(* the number of requests the dispatch has sent to provider s *)
CallsTo(s) == Cardinality({i \in 1..Len(calls) : calls[i].source = s})

(* the number of times the dispatch has come to provider s: skipped,       *)
(* finished or under way                                                   *)
VisitsTo(s) ==
    Cardinality({i \in 1..Len(sources) :
                    sources[i] = s /\ (i < pos \/ (i = pos /\ pc # "next"))})

(* the most calls a dispatch may make to provider s: one per key, one for  *)
(* a provider without KeyManager                                           *)
CallBound(s) == IF hasKeyManager(s) THEN getTotalKeyCount(keys[s]) ELSE 1

(* the dispatch makes progress through its list and through the keys *)
DispatchBounded ==
    /\ pos <= Len(sources) + 1
    /\ Len(attempts) + Len(skipped) <= Len(sources)
    /\ pc \in {"rotate", "await"} /\ hasKeyManager(sources[pos]) =>
          attempt < getTotalKeyCount(keys[sources[pos]])

(* C36: a dispatch comes to each provider at most once and calls a         *)
(* provider with n keys at most n times (a provider without keys at most   *)
(* once), and its loops are bounded by the length of its list and the      *)
(* number of keys, whatever the upstream errors.                           *)
C36_DispatchBoundedPerProvider ==
    /\ DispatchBounded
    /\ \A s \in Sources :
          /\ VisitsTo(s) <= 1
          /\ CallsTo(s) <= CallBound(s)

(* the bound of C36 counted per entry of the routed list: an entry is      *)
(* visited once, and a provider listed k times is called at most k times   *)
(* its bound                                                               *)
BoundedPerRoutedEntry ==
    /\ DispatchBounded
    /\ \A s \in Sources :
          LET k == Cardinality({i \in 1..Len(sources) : sources[i] = s})
          IN  /\ VisitsTo(s) <= k
              /\ CallsTo(s) <= k * CallBound(s)

(* the dispatch has returned the result of a provider with a KeyManager *)
SucceededWithKey ==
    pc = "done" /\ result.kind = "ok" /\ hasKeyManager(result.source)

(* C37: the keyIndex of the successful attempt is the index of the key     *)
(* that was acquired for the call, the one whose usageCount the dispatch   *)
(* incremented.                                                            *)
C37_AttemptKeyIndexIsAcquiredKey ==
    SucceededWithKey =>
        /\ attempts[Len(attempts)].success
        /\ attempts[Len(attempts)].source = result.source
        /\ attempts[Len(attempts)].keyIndex = keyInfo
        /\ attempts[Len(attempts)].keyIndex = calls[Len(calls)].acquired

(* what holds of the keyIndex of an attempt: it is the current index of    *)
(* the pool read before the provider was entered, and the key that served  *)
(* the call is the current key afterwards                                  *)
KeyIndexIsSnapshot ==
    SucceededWithKey =>
        /\ attempts[Len(attempts)].keyIndex = keyIndex
        /\ currentIndexes[result.source] = keyInfo
        /\ calls[Len(calls)].acquired = keyInfo

(* the step passes a wrapped call through the breaker *)
CallAdmitted == \E k \in DOMAIN inFlight : inFlight'[k] > inFlight[k]

(* C38: recovery is tested with a single request: the step that makes the  *)
(* circuit half-open starts one call, whose outcome the breaker counts,    *)
(* and as long as the circuit is half-open neither execute nor             *)
(* testRecovery passes another call through.                               *)
C38_HalfOpenAdmitsSingleTrial ==
    [][/\ (circuitState # "half-open" /\ circuitState' = "half-open") =>
            inFlight' = [inFlight EXCEPT !.trial = @ + 1]
       /\ circuitState = "half-open" => ~CallAdmitted]_vars

=============================================================================
